---- MODULE Spec2Model ----
(***************************************************************************)
(* A model of the CallHub MCP wrapper: the resource functions that         *)
(* validate a flat parameter dictionary and dispatch HTTP requests, the    *)
(* fetch-all pagination loops, the concatenated-JSON repair of             *)
(* list_custom_fields and the credential store.                            *)
(*                                                                         *)
(* Python values are tagged records [t, s, n]: t is the type tag, s the    *)
(* characters of a string (a sequence of one-character strings, so that    *)
(* lower(), isdigit() and int() are computed and not assumed), n the value *)
(* of an integer.  A parameter dictionary is a function from key names to  *)
(* such values; a key that is not in its DOMAIN is an omitted parameter.   *)
(***************************************************************************)
EXTENDS Integers, Sequences, FiniteSets, TLC

VARIABLES
    call,       \* the last invocation: [fn, params]
    requests,   \* the HTTP requests that invocation dispatched, in order
    outcome,    \* what that invocation returned (or raised)
    pgCall,     \* a paginated listing in progress: [fn, params, upstream]
    pgPc,       \* where it is: "idle", "loop" or "done"
    pgPage,     \* the page number the loop requests next
    pgResults,  \* the results accumulated so far
    pgRequests, \* the page requests made so far, in order
    pgReturn,   \* what the listing returned
    cfCall,     \* the last list_custom_fields invocation: [fn, params, response]
    cfReturn,   \* what it returned
    store,      \* the credential store: lowercase name -> credentials
    fileExists, \* whether the backing file of the store exists
    lastOp,     \* the last credential-store operation and its result
    running     \* two credential-store mutations in flight, step by step

callVars == <<call, requests, outcome>>

pageVars == <<pgCall, pgPc, pgPage, pgResults, pgRequests, pgReturn>>

repairVars == <<cfCall, cfReturn>>

storeVars == <<store, fileExists, lastOp, running>>

vars == <<callVars, pageVars, repairVars, storeVars>>

-----------------------------------------------------------------------------
(* Python values *)

None == [t |-> "none", s |-> <<>>, n |-> 0]

PyStr(chars) == [t |-> "str", s |-> chars, n |-> 0]

PyInt(k) == [t |-> "int", s |-> <<>>, n |-> k]

Absent == [t |-> "absent", s |-> <<>>, n |-> 0]

IsStr(v) == v.t = "str"

IsInt(v) == v.t = "int"

PyBool(b) == [t |-> "bool", s |-> <<>>, n |-> IF b THEN 1 ELSE 0]

\* `not v` in Python: None, the empty string, the empty list, the empty
\* dictionary, the integer 0 and False are falsy.
Falsy(v) ==
    \/ v.t = "none"
    \/ (v.t \in {"str", "list"} /\ v.s = <<>>)
    \/ (v.t \in {"int", "bool"} /\ v.n = 0)
    \/ (v.t = "dict" /\ DOMAIN v.d = {})

\* dict.get(key): None when the key is omitted.
Get(p, k) == IF k \in DOMAIN p THEN p[k] ELSE None

\* A dictionary from a total assignment: the keys given as Absent are omitted.
Strip(p) == [k \in {x \in DOMAIN p : p[x] # Absent} |-> p[k]]

UpperLetters ==
    <<"A","B","C","D","E","F","G","H","I","J","K","L","M",
      "N","O","P","Q","R","S","T","U","V","W","X","Y","Z">>

LowerLetters ==
    <<"a","b","c","d","e","f","g","h","i","j","k","l","m",
      "n","o","p","q","r","s","t","u","v","w","x","y","z">>

LowerChar(c) ==
    IF \E i \in DOMAIN UpperLetters : UpperLetters[i] = c
    THEN LowerLetters[CHOOSE i \in DOMAIN UpperLetters : UpperLetters[i] = c]
    ELSE c

\* str.lower()
Lower(chars) == [i \in DOMAIN chars |-> LowerChar(chars[i])]

DigitChars == <<"0","1","2","3","4","5","6","7","8","9">>

IsDigitChar(c) == \E i \in DOMAIN DigitChars : DigitChars[i] = c

DigitValue(c) == (CHOOSE i \in DOMAIN DigitChars : DigitChars[i] = c) - 1

\* str.isdigit(): non-empty and every character a digit.
IsDigit(chars) == chars # <<>> /\ \A i \in DOMAIN chars : IsDigitChar(chars[i])

\* int(str) of a digit string.
RECURSIVE IntOf(_)
IntOf(chars) ==
    IF chars = <<>> THEN 0
    ELSE 10 * IntOf(SubSeq(chars, 1, Len(chars) - 1)) + DigitValue(chars[Len(chars)])

-----------------------------------------------------------------------------
(* Strings the code compares against, as character sequences *)

S_pause == <<"p","a","u","s","e">>

S_resume == <<"r","e","s","u","m","e">>

S_stop == <<"s","t","o","p">>

S_restart == <<"r","e","s","t","a","r","t">>

S_start == <<"s","t","a","r","t">>

S_abort == <<"a","b","o","r","t">>

S_end == <<"e","n","d">>

DefaultName == <<"d","e","f","a","u","l","t">>

AcmeName == <<"a","c","m","e">>

GhostName == <<"g","h","o","s","t">>

-----------------------------------------------------------------------------
(* Envelopes, the account resolver and the dispatcher *)

\* {"isError": True, "content": [{"type": "text", "text": msg}]}
ErrorEnvelope(msg) ==
    [raised |-> FALSE, isError |-> TRUE,
     content |-> <<[type |-> "text", text |-> msg]>>, data |-> ""]

\* A decoded JSON response passed through.
Success(data) == [raised |-> FALSE, isError |-> FALSE, content |-> <<>>, data |-> data]

\* An exception leaving the function.
Raised(msg) == [raised |-> TRUE, isError |-> FALSE, content |-> <<>>, data |-> msg]

NoResult == [raised |-> FALSE, isError |-> FALSE, content |-> <<>>, data |-> "idle"]

\* The accounts of the credential store while resource functions are called.
ConfiguredAccounts == {DefaultName, AcmeName}

\* get_account_config: no name resolves to the default account, a configured
\* name to itself, any other name raises.
get_account_config(name) ==
    IF Falsy(name) THEN [ok |-> TRUE, account |-> DefaultName]
    ELSE IF IsStr(name) /\ Lower(name.s) \in ConfiguredAccounts
         THEN [ok |-> TRUE, account |-> Lower(name.s)]
         ELSE [ok |-> FALSE, account |-> <<>>]

AccountNotFound == "account not found"

\* What the remote end answers to one request.
Responses == {"ok", "http_error", "network_error"}

\* api_call: one HTTP request; a non-2xx status and a transport exception
\* both come back as an error envelope.
api_call(method, url, id, kind, body, account, resp) ==
    [reqs |-> <<[method |-> method, url |-> url, id |-> id, kind |-> kind,
                 body |-> body, account |-> account, content_type |-> "default"]>>,
     ret  |-> IF resp = "ok" THEN Success("response")
              ELSE IF resp = "http_error" THEN ErrorEnvelope("HTTP error")
              ELSE ErrorEnvelope("network error")]

\* A return without any request.
Local(ret) == [reqs |-> <<>>, ret |-> ret]

NoBody == [k \in {} |-> None]

\* headers = get_auth_headers(self.api_key, "application/x-www-form-urlencoded"):
\* the request goes out under the form content type.
FormHeaders(r) ==
    [r EXCEPT !.reqs = [i \in DOMAIN r.reqs |->
                          [r.reqs[i] EXCEPT !.content_type = "application/x-www-form-urlencoded"]]]

\* A client that looks at form_data before body.
McpApiClient_call_FormFirst(account, url, id, method, body, query, form_data, resp) ==
    IF method = "GET" THEN api_call(method, url, id, "query", query, account, resp)
    ELSE IF method \in {"POST", "PUT", "PATCH"} THEN
        IF form_data # None
        THEN FormHeaders(api_call(method, url, id, "form", form_data, account, resp))
        ELSE IF body # None THEN api_call(method, url, id, "json", body, account, resp)
        ELSE api_call(method, url, id, "none", NoBody, account, resp)
    ELSE IF method = "DELETE" THEN
        api_call(method, url, id, IF body # None THEN "json" ELSE "none",
                 IF body # None THEN body ELSE NoBody, account, resp)
    ELSE Local(ErrorEnvelope("Unsupported method"))

\* McpApiClient.call, after the constructor resolved `account`.
McpApiClient_call(account, url, id, method, body, query, form_data, resp) ==
    IF method = "GET" THEN api_call(method, url, id, "query", query, account, resp)
    ELSE IF method \in {"POST", "PUT", "PATCH"} THEN
        IF body # None THEN api_call(method, url, id, "json", body, account, resp)
        ELSE IF form_data # None
        THEN FormHeaders(api_call(method, url, id, "form", form_data, account, resp))
        ELSE api_call(method, url, id, "none", NoBody, account, resp)
    ELSE IF method = "DELETE" THEN
        api_call(method, url, id, IF body # None THEN "json" ELSE "none",
                 IF body # None THEN body ELSE NoBody, account, resp)
    ELSE Local(ErrorEnvelope("Unsupported method"))

\* A client that sends a failed request a second time.
ClientCall_Retrying(name, url, id, method, body, query, form_data, resp) ==
    LET cfg == get_account_config(name)
        r == McpApiClient_call(cfg.account, url, id, method, body, query, form_data, resp)
    IN
    IF ~cfg.ok THEN Local(Raised(AccountNotFound))
    ELSE IF r.ret.isError THEN [reqs |-> r.reqs \o r.reqs, ret |-> r.ret]
    ELSE r

\* McpApiClient(name).call(...): the constructor raises when the account
\* does not resolve.
ClientCall(name, url, id, method, body, query, form_data, resp) ==
    LET cfg == get_account_config(name) IN
    IF ~cfg.ok THEN Local(Raised(AccountNotFound))
    ELSE McpApiClient_call(cfg.account, url, id, method, body, query, form_data, resp)

\* try: ... except Exception as e: return the error envelope of str(e)
Caught(r) == IF r.ret.raised THEN Local(ErrorEnvelope(r.ret.data)) ELSE r

-----------------------------------------------------------------------------
(* Status updates *)

\* campaigns.py: the call-center table.
CallCenterStatusMapping ==
    (S_pause :> 4) @@ (S_resume :> 2) @@ (S_stop :> 5) @@ (S_restart :> 2)

\* The broadcast aliases with the call-center codes for pause and end.
BroadcastStatusMapping_CallCenterCodes ==
    (S_start :> 1) @@ (S_pause :> 4) @@ (S_abort :> 3) @@ (S_end :> 5)

\* p2p_campaigns.py, sms_broadcasts.py, voice_broadcast.py: the broadcast table.
BroadcastStatusMapping ==
    (S_start :> 1) @@ (S_pause :> 2) @@ (S_abort :> 3) @@ (S_end :> 4)

\* The same conversion without lower(): an alias matches only as written.
NormalizeStatus_CaseSensitive(status, mapping) ==
    IF IsStr(status) /\ status.s \in DOMAIN mapping
    THEN PyInt(mapping[status.s])
    ELSE IF IsStr(status) /\ IsDigit(status.s)
         THEN PyInt(IntOf(status.s))
         ELSE status

\* The if/elif that turns a status into its numeric code: an alias of the
\* table (any letter case) to its code, a digit string to its integer,
\* anything else is left as it is.
NormalizeStatus(status, mapping) ==
    IF IsStr(status) /\ Lower(status.s) \in DOMAIN mapping
    THEN PyInt(mapping[Lower(status.s)])
    ELSE IF IsStr(status) /\ IsDigit(status.s)
         THEN PyInt(IntOf(status.s))
         ELSE status

\* `not isinstance(status, int)` of update_call_center_campaign: the only
\* check the call-center update makes on the normalized status.
CallCenterStatusInvalid(status) == ~IsInt(status)

\* `not isinstance(status, int) or status < 1 or status > 4`
BroadcastStatusInvalid(status) == ~IsInt(status) \/ status.n < 1 \/ status.n > 4

StatusBody(status) == [status |-> status]

update_call_center_campaign(params, resp) ==
    LET campaign_id == Get(params, "campaignId")
        status0 == Get(params, "status")
        status == NormalizeStatus(status0, CallCenterStatusMapping)
        cfg == get_account_config(Get(params, "accountName"))
    IN
    IF Falsy(campaign_id) THEN Local(ErrorEnvelope("'campaignId' is required."))
    ELSE IF Falsy(status0) THEN Local(ErrorEnvelope("'status' is required."))
    ELSE IF CallCenterStatusInvalid(status)
         THEN Local(ErrorEnvelope("Valid 'status' is required: pause, resume, stop, restart, or a valid numeric status"))
    ELSE IF ~cfg.ok THEN Local(ErrorEnvelope(AccountNotFound))
    ELSE api_call("PATCH", "v1/callcenter_campaigns/{}/", campaign_id, "json",
                  StatusBody(status), cfg.account, resp)

update_p2p_campaign(params, resp) ==
    LET campaign_id == Get(params, "campaignId")
        status0 == Get(params, "status")
        status == NormalizeStatus(status0, BroadcastStatusMapping)
        cfg == get_account_config(Get(params, "account"))
    IN
    IF Falsy(campaign_id) THEN Local(ErrorEnvelope("'campaignId' is required."))
    ELSE IF status0 = None THEN Local(ErrorEnvelope("'status' is required."))
    ELSE IF BroadcastStatusInvalid(status)
         THEN Local(ErrorEnvelope("Valid 'status' is required: start, pause, abort, end, or a valid numeric status (1-4)"))
    ELSE IF ~cfg.ok THEN Local(ErrorEnvelope(AccountNotFound))
    ELSE api_call("PUT", "v1/p2p_campaigns/{}/", campaign_id, "json",
                  StatusBody(status), cfg.account, resp)

update_sms_broadcast(params, resp) ==
    LET campaign_id == Get(params, "campaignId")
        status0 == Get(params, "status")
        status == NormalizeStatus(status0, BroadcastStatusMapping)
        cfg == get_account_config(Get(params, "account"))
    IN
    IF Falsy(campaign_id) THEN Local(ErrorEnvelope("'campaignId' is required."))
    ELSE IF status0 = None THEN Local(ErrorEnvelope("'status' is required."))
    ELSE IF BroadcastStatusInvalid(status)
         THEN Local(ErrorEnvelope("Valid 'status' is required: start, pause, abort, end, or a valid numeric status (1-4)"))
    ELSE IF ~cfg.ok THEN Local(ErrorEnvelope(AccountNotFound))
    ELSE api_call("PATCH", "v2/sms_broadcast/{}/", campaign_id, "json",
                  StatusBody(status), cfg.account, resp)

\* VoiceBroadcast(account_name).update_voice_broadcast(campaign_id, status):
\* the constructor resolves the account and raises when it is not found.
update_voice_broadcast(params, resp) ==
    LET campaign_id == Get(params, "campaign_id")
        status0 == Get(params, "status")
        status == NormalizeStatus(status0, BroadcastStatusMapping)
        cfg == get_account_config(Get(params, "account_name"))
    IN
    IF ~cfg.ok THEN Local(Raised(AccountNotFound))
    ELSE IF Falsy(campaign_id) THEN Local(ErrorEnvelope("'campaign_id' is required."))
    ELSE IF status0 = None THEN Local(ErrorEnvelope("'status' is required."))
    ELSE IF BroadcastStatusInvalid(status)
         THEN Local(ErrorEnvelope("Valid 'status' is required: start, pause, abort, end, or a valid numeric status (1-4)"))
    ELSE api_call("PATCH", "v1/voice_broadcasts/{}/", campaign_id, "json",
                  StatusBody(status), cfg.account, resp)

\* update_sms_campaign assigns status_mapping only inside the branch that
\* returns "'status' is required.", so the name is unbound when the first
\* test reads it: for a string status `status.lower() in status_mapping`
\* raises UnboundLocalError, which the function's except turns into an
\* error envelope.  A status that is no string never reads the name.
UnboundStatusMapping == "cannot access local variable 'status_mapping'"

update_sms_campaign(params, resp) ==
    LET campaign_id == Get(params, "campaignId")
        status == Get(params, "status")
    IN
    IF Falsy(campaign_id) THEN Local(ErrorEnvelope("'campaignId' is required."))
    ELSE IF status = None THEN Local(ErrorEnvelope("'status' is required."))
    ELSE IF IsStr(status) THEN Local(ErrorEnvelope(UnboundStatusMapping))
    ELSE IF BroadcastStatusInvalid(status)
         THEN Local(ErrorEnvelope("Valid 'status' is required: start, pause, abort, end, or a valid numeric status (1-4)"))
    ELSE Caught(ClientCall(Get(params, "account"), "ENDPOINTS.SMS_CAMPAIGNS{}/", campaign_id,
                           "PATCH", StatusBody(status), None, None, resp))

-----------------------------------------------------------------------------
(* The status-update tools of server.py: keyword arguments account,        *)
(* campaignId, status; every tool body is inside try/except Exception.     *)

update_call_center_campaign_tool(args, resp) ==
    LET account == Get(args, "account")
        campaignId == Get(args, "campaignId")
        status == Get(args, "status")
    IN
    IF Falsy(campaignId) THEN Local(ErrorEnvelope("'campaignId' is required."))
    ELSE IF Falsy(status) \/ ~(IsStr(status) /\ status.s \in {S_pause, S_resume, S_stop, S_restart})
         THEN Local(ErrorEnvelope("Valid 'status' is required: pause, resume, stop, or restart"))
    ELSE Caught(update_call_center_campaign(
            Strip([campaignId |-> campaignId, status |-> status,
                   accountName |-> IF Falsy(account) THEN Absent ELSE account]), resp))

update_sms_campaign_tool(args, resp) ==
    LET account == Get(args, "account")
        campaignId == Get(args, "campaignId")
        status == Get(args, "status")
    IN
    IF Falsy(campaignId) THEN Local(ErrorEnvelope("'campaignId' is required."))
    ELSE IF Falsy(status)
         THEN Local(ErrorEnvelope("Valid 'status' is required: start, pause, abort, end, or 1-4 numerically"))
    ELSE Caught(update_sms_campaign(
            Strip([campaignId |-> campaignId, status |-> status,
                   accountName |-> IF Falsy(account) THEN Absent ELSE account]), resp))

update_p2p_campaign_tool(args, resp) ==
    LET account == Get(args, "account")
        campaignId == Get(args, "campaignId")
        status == Get(args, "status")
    IN
    IF Falsy(campaignId) THEN Local(ErrorEnvelope("'campaignId' is required."))
    ELSE IF Falsy(status)
         THEN Local(ErrorEnvelope("Valid 'status' is required: start, pause, abort, end, or 1-4 numerically"))
    ELSE Caught(update_p2p_campaign(
            Strip([campaignId |-> campaignId, status |-> status,
                   account |-> IF Falsy(account) THEN Absent ELSE account]), resp))

-----------------------------------------------------------------------------
(* Creation and lookup functions *)

\* An opaque non-empty value (a list, a dictionary, a URL).
Obj == [t |-> "obj", s |-> <<>>, n |-> 1]

\* urls.py: the account is resolved first, a missing url raises ValueError.
createShortenedUrl(params, resp) ==
    LET cfg == get_account_config(Get(params, "accountName"))
        url_to_shorten == Get(params, "url")
    IN
    IF ~cfg.ok THEN Local(Raised(AccountNotFound))
    ELSE IF Falsy(url_to_shorten) THEN Local(Raised("'url' is required."))
    ELSE api_call("POST", "v1/shortened_url/", None, "json",
                  [url |-> url_to_shorten], cfg.account, resp)

\* vb_campaigns.py: no parameter is checked; the body always has the five keys.
create_voice_broadcast_campaign(params, resp) ==
    Caught(ClientCall(Get(params, "accountName"), "ENDPOINTS.VB_CAMPAIGN", None, "POST",
                      [k \in {"phonebooks", "callerid_options", "contact_options",
                               "template_id", "schedule"} |-> Get(params, k)],
                      None, None, resp))

get_vb_campaign(params, resp) ==
    LET campaign_id == Get(params, "campaignId") IN
    IF Falsy(campaign_id) THEN Local(ErrorEnvelope("'campaignId' is required."))
    ELSE ClientCall(Get(params, "accountName"), "ENDPOINTS.VB_CAMPAIGN{}/", campaign_id,
                    "GET", None, None, None, resp)

\* relational_organizing.py: all params are passed as the body, unchecked.
create_relational_organizing_campaign(params, resp) ==
    ClientCall(Get(params, "accountName"), "v1/relational-campaign/", None, "POST",
               params, None, None, resp)

duplicate_relational_organizing_campaign(params, resp) ==
    LET campaign_id == Get(params, "campaign_id") IN
    IF Falsy(campaign_id) THEN Local(ErrorEnvelope("'campaign_id' is required."))
    ELSE ClientCall(Get(params, "accountName"), "v1/relational-campaign/{}/duplicate/",
                    campaign_id, "POST", None, None, None, resp)

-----------------------------------------------------------------------------
(* The parts of the state a specification does not exercise stay idle *)

PagesIdle ==
    /\ pgCall = [fn |-> "none", params |-> NoBody, upstream |-> <<>>]
    /\ pgPc = "idle"
    /\ pgPage = None
    /\ pgResults = <<>>
    /\ pgRequests = <<>>
    /\ pgReturn = [kind |-> "none", results |-> <<>>, count |-> None,
                   page |-> 0, next |-> FALSE]

RepairIdle ==
    /\ cfCall = [fn |-> "none", params |-> NoBody, response |-> NoBody]
    /\ cfReturn = [kind |-> "none", count |-> 0, results |-> <<>>, reqs |-> <<>>]

\* No credential-store operation has been recorded.
NoOp == [op |-> "none"]

\* No mutation of the credential store is in flight.
NoneRunning == [start |-> [creds |-> NoBody, file |-> FALSE], of |-> <<>>]

StoreIdle ==
    /\ store = NoBody
    /\ fileExists = FALSE
    /\ lastOp = NoOp
    /\ running = NoneRunning

-----------------------------------------------------------------------------
(* Invocations of the resource functions and tools: one action each *)

\* The largest integer status tried.
MaxStatusCode == 7

StatusStrings ==
    { S_pause, <<"P","A","U","S","E">>, <<"P","a","u","s","e">>,
      S_resume, <<"R","e","s","u","m","E">>,
      S_stop, <<"S","T","O","P">>,
      S_restart, <<"r","e","S","t","a","r","t">>,
      S_start, <<"S","T","A","R","T">>, <<"S","t","a","r","t">>,
      S_abort, <<"A","b","o","r","t">>,
      S_end, <<"E","N","D">>,
      <<"0">>, <<"1">>, <<"2">>, <<"3">>, <<"4">>, <<"5">>, <<"9">>,
      <<"0","4">>, <<"1","2">>,
      <<"b","o","g","u","s">>, <<"p","a","u","s","e","d">>, <<" ","e","n","d">>,
      <<"-","1">>, <<>> }

StatusValues ==
    {Absent} \cup {PyStr(c) : c \in StatusStrings}
             \cup {PyInt(k) : k \in (0 - 1) .. MaxStatusCode}

CampaignIds == {Absent, PyStr(<<>>), PyStr(<<"4","2">>)}

AccountValues == {Absent, PyStr(AcmeName), PyStr(<<"A","c","m","e">>), PyStr(GhostName)}

\* {idKey: campaign id, "status": status, acctKey: account}, each possibly omitted.
StatusParams(idKey, acctKey) ==
    { Strip((idKey :> c) @@ ("status" :> st) @@ (acctKey :> a)) :
        c \in CampaignIds, st \in StatusValues, a \in AccountValues }

\* What a tool can be handed for its str-typed status.
ToolArgs ==
    { Strip([campaignId |-> c, status |-> st, account |-> a]) :
        c \in CampaignIds, st \in {v \in StatusValues : v.t # "int"}, a \in AccountValues }

Idle == call.fn = "none"

Invocation(fn, p, resp) == [fn |-> fn, params |-> p, resp |-> resp]

CallUpdateCallCenterCampaign ==
    /\ Idle
    /\ \E p \in StatusParams("campaignId", "accountName"), resp \in Responses :
        LET r == update_call_center_campaign(p, resp) IN
        /\ call' = Invocation("update_call_center_campaign", p, resp)
        /\ requests' = r.reqs
        /\ outcome' = r.ret
    /\ UNCHANGED <<pageVars, repairVars, storeVars>>

CallUpdateP2pCampaign ==
    /\ Idle
    /\ \E p \in StatusParams("campaignId", "account"), resp \in Responses :
        LET r == update_p2p_campaign(p, resp) IN
        /\ call' = Invocation("update_p2p_campaign", p, resp)
        /\ requests' = r.reqs
        /\ outcome' = r.ret
    /\ UNCHANGED <<pageVars, repairVars, storeVars>>

CallUpdateSmsBroadcast ==
    /\ Idle
    /\ \E p \in StatusParams("campaignId", "account"), resp \in Responses :
        LET r == update_sms_broadcast(p, resp) IN
        /\ call' = Invocation("update_sms_broadcast", p, resp)
        /\ requests' = r.reqs
        /\ outcome' = r.ret
    /\ UNCHANGED <<pageVars, repairVars, storeVars>>

CallUpdateVoiceBroadcast ==
    /\ Idle
    /\ \E p \in StatusParams("campaign_id", "account_name"), resp \in Responses :
        LET r == update_voice_broadcast(p, resp) IN
        /\ call' = Invocation("update_voice_broadcast", p, resp)
        /\ requests' = r.reqs
        /\ outcome' = r.ret
    /\ UNCHANGED <<pageVars, repairVars, storeVars>>

CallUpdateSmsCampaign ==
    /\ Idle
    /\ \E p \in StatusParams("campaignId", "account"), resp \in Responses :
        LET r == update_sms_campaign(p, resp) IN
        /\ call' = Invocation("update_sms_campaign", p, resp)
        /\ requests' = r.reqs
        /\ outcome' = r.ret
    /\ UNCHANGED <<pageVars, repairVars, storeVars>>

CallUpdateCallCenterCampaignTool ==
    /\ Idle
    /\ \E a \in ToolArgs, resp \in Responses :
        LET r == update_call_center_campaign_tool(a, resp) IN
        /\ call' = Invocation("updateCallCenterCampaign", a, resp)
        /\ requests' = r.reqs
        /\ outcome' = r.ret
    /\ UNCHANGED <<pageVars, repairVars, storeVars>>

CallUpdateSmsCampaignTool ==
    /\ Idle
    /\ \E a \in ToolArgs, resp \in Responses :
        LET r == update_sms_campaign_tool(a, resp) IN
        /\ call' = Invocation("updateSmsCampaign", a, resp)
        /\ requests' = r.reqs
        /\ outcome' = r.ret
    /\ UNCHANGED <<pageVars, repairVars, storeVars>>

CallUpdateP2pCampaignTool ==
    /\ Idle
    /\ \E a \in ToolArgs, resp \in Responses :
        LET r == update_p2p_campaign_tool(a, resp) IN
        /\ call' = Invocation("updateP2pCampaign", a, resp)
        /\ requests' = r.reqs
        /\ outcome' = r.ret
    /\ UNCHANGED <<pageVars, repairVars, storeVars>>

\* A dictionary holding any subset of `keys` (as opaque values) and an account.
ObjParams(keys) ==
    { Strip([k \in keys \cup {"accountName"} |->
                IF k = "accountName" THEN a ELSE IF k \in present THEN Obj ELSE Absent]) :
        present \in SUBSET keys, a \in AccountValues }

VbCampaignKeys == {"phonebooks", "callerid_options", "contact_options", "template_id", "schedule"}

CallCreateShortenedUrl ==
    /\ Idle
    /\ \E p \in ObjParams({"url"}), resp \in Responses :
        LET r == createShortenedUrl(p, resp) IN
        /\ call' = Invocation("createShortenedUrl", p, resp)
        /\ requests' = r.reqs
        /\ outcome' = r.ret
    /\ UNCHANGED <<pageVars, repairVars, storeVars>>

CallCreateVoiceBroadcastCampaign ==
    /\ Idle
    /\ \E p \in ObjParams(VbCampaignKeys), resp \in Responses :
        LET r == create_voice_broadcast_campaign(p, resp) IN
        /\ call' = Invocation("create_voice_broadcast_campaign", p, resp)
        /\ requests' = r.reqs
        /\ outcome' = r.ret
    /\ UNCHANGED <<pageVars, repairVars, storeVars>>

CallGetVbCampaign ==
    /\ Idle
    /\ \E p \in ObjParams({"campaignId"}), resp \in Responses :
        LET r == get_vb_campaign(p, resp) IN
        /\ call' = Invocation("get_vb_campaign", p, resp)
        /\ requests' = r.reqs
        /\ outcome' = r.ret
    /\ UNCHANGED <<pageVars, repairVars, storeVars>>

CallCreateRelationalOrganizingCampaign ==
    /\ Idle
    /\ \E p \in ObjParams({"name", "phonebook_ids", "survey_id"}), resp \in Responses :
        LET r == create_relational_organizing_campaign(p, resp) IN
        /\ call' = Invocation("create_relational_organizing_campaign", p, resp)
        /\ requests' = r.reqs
        /\ outcome' = r.ret
    /\ UNCHANGED <<pageVars, repairVars, storeVars>>

CallDuplicateRelationalOrganizingCampaign ==
    /\ Idle
    /\ \E p \in ObjParams({"campaign_id"}), resp \in Responses :
        LET r == duplicate_relational_organizing_campaign(p, resp) IN
        /\ call' = Invocation("duplicate_relational_organizing_campaign", p, resp)
        /\ requests' = r.reqs
        /\ outcome' = r.ret
    /\ UNCHANGED <<pageVars, repairVars, storeVars>>

\* The result is handed to the caller; the next invocation starts afresh.
Finish ==
    /\ ~Idle
    /\ call' = [fn |-> "none", params |-> NoBody, resp |-> "ok"]
    /\ requests' = <<>>
    /\ outcome' = NoResult
    /\ UNCHANGED <<pageVars, repairVars, storeVars>>

CallsIdle ==
    /\ call = [fn |-> "none", params |-> NoBody, resp |-> "ok"]
    /\ requests = <<>>
    /\ outcome = NoResult

\* Nothing has been called and there is no credentials file.
Init == CallsIdle /\ PagesIdle /\ RepairIdle /\ StoreIdle

NextCalls ==
    \/ CallCreateVoiceBroadcastCampaign
    \/ CallUpdateCallCenterCampaign
    \/ CallUpdateP2pCampaign
    \/ CallUpdateSmsBroadcast
    \/ CallUpdateVoiceBroadcast
    \/ CallUpdateSmsCampaign
    \/ CallUpdateCallCenterCampaignTool
    \/ CallUpdateSmsCampaignTool
    \/ CallUpdateP2pCampaignTool
    \/ CallCreateShortenedUrl
    \/ CallGetVbCampaign
    \/ CallCreateRelationalOrganizingCampaign
    \/ CallDuplicateRelationalOrganizingCampaign
    \/ Finish

SpecCalls == Init /\ [][NextCalls]_vars

-----------------------------------------------------------------------------
(* Properties of the invocations *)

\* What each function's documentation says it requires.
RequiredParams ==
    [ update_call_center_campaign |-> {"campaignId", "status"},
      update_p2p_campaign |-> {"campaignId", "status"},
      update_sms_broadcast |-> {"campaignId", "status"},
      update_voice_broadcast |-> {"campaign_id", "status"},
      update_sms_campaign |-> {"campaignId", "status"},
      createShortenedUrl |-> {"url"},
      create_voice_broadcast_campaign |-> VbCampaignKeys,
      get_vb_campaign |-> {"campaignId"},
      create_relational_organizing_campaign |-> {"name"},
      duplicate_relational_organizing_campaign |-> {"campaign_id"} ]

\* The key under which each status-update function reads the account and
\* the campaign id.
AccountKey ==
    [ update_call_center_campaign |-> "accountName",
      update_p2p_campaign |-> "account",
      update_sms_broadcast |-> "account",
      update_voice_broadcast |-> "account_name",
      update_sms_campaign |-> "account" ]

CampaignKey ==
    [ update_call_center_campaign |-> "campaignId",
      update_p2p_campaign |-> "campaignId",
      update_sms_broadcast |-> "campaignId",
      update_voice_broadcast |-> "campaign_id",
      update_sms_campaign |-> "campaignId" ]

StatusFunctions == DOMAIN AccountKey

IsErrorEnvelope(o) ==
    /\ ~o.raised
    /\ o.isError
    /\ o.content # <<>>

\* The invocation is a status update that names a campaign and an account
\* that resolves, so that only the status decides what happens.
StatusUpdateReady ==
    /\ call.fn \in StatusFunctions
    /\ ~Falsy(Get(call.params, CampaignKey[call.fn]))
    /\ get_account_config(Get(call.params, AccountKey[call.fn])).ok

GivenStatus == Get(call.params, "status")

\* Exactly one request went out, with JSON body {status: code}.
DispatchedStatus(code) ==
    /\ Len(requests) = 1
    /\ requests[1].kind = "json"
    /\ requests[1].body = [status |-> PyInt(code)]
    /\ requests[1].id = Get(call.params, CampaignKey[call.fn])

\* C1: every resource function called with a required parameter omitted
\* returns an error envelope and dispatches no request.
C1_MissingRequiredRejected ==
    ( /\ call.fn \in DOMAIN RequiredParams
      /\ \E k \in RequiredParams[call.fn] : k \notin DOMAIN call.params )
    => (IsErrorEnvelope(outcome) /\ requests = <<>>)

\* The codes each resource documents.
DocumentedCodes(fn) ==
    IF fn = "update_call_center_campaign" THEN {2, 4, 5} ELSE {1, 2, 3, 4}

DocumentedAliases(fn) ==
    IF fn = "update_call_center_campaign"
    THEN {S_pause, S_resume, S_stop, S_restart}
    ELSE {S_start, S_pause, S_abort, S_end}

\* An unknown string, or a numeric code (an integer or a digit string)
\* outside the resource's documented codes.
BadStatus(fn, v) ==
    \/ (IsInt(v) /\ v.n \notin DocumentedCodes(fn))
    \/ (IsStr(v) /\ IsDigit(v.s) /\ IntOf(v.s) \notin DocumentedCodes(fn))
    \/ (IsStr(v) /\ ~IsDigit(v.s) /\ Lower(v.s) \notin DocumentedAliases(fn))

\* C2: every status-update function rejects an unknown string and a numeric
\* code outside its documented codes with an error envelope, before any
\* request is dispatched.
C2_BadStatusRejected ==
    (StatusUpdateReady /\ BadStatus(call.fn, GivenStatus))
    => (IsErrorEnvelope(outcome) /\ requests = <<>>)

\* C3: update_call_center_campaign without a status fails validation and
\* dispatches nothing; with pause, resume, stop or restart in any letter
\* case it dispatches exactly one PATCH to the campaign's endpoint with
\* body {status: 4}, {status: 2}, {status: 5}, {status: 2}.
C3_CallCenterStatus ==
    (call.fn = "update_call_center_campaign") =>
        /\ ("status" \notin DOMAIN call.params)
              => (IsErrorEnvelope(outcome) /\ requests = <<>>)
        /\ (StatusUpdateReady /\ IsStr(GivenStatus)) =>
            LET low == Lower(GivenStatus.s)
                patch(code) ==
                    /\ DispatchedStatus(code)
                    /\ requests[1].method = "PATCH"
                    /\ requests[1].url = "v1/callcenter_campaigns/{}/"
            IN  /\ (low = S_pause) => patch(4)
                /\ (low = S_resume) => patch(2)
                /\ (low = S_stop) => patch(5)
                /\ (low = S_restart) => patch(2)

\* An upper-case PAUSE reached the call-center endpoint as code 4.
C3_Witness ==
    /\ call.fn = "update_call_center_campaign"
    /\ GivenStatus = PyStr(<<"P","A","U","S","E">>)
    /\ Len(requests) = 1
    /\ requests[1].method = "PATCH"
    /\ requests[1].body = [status |-> PyInt(4)]

BroadcastFunctions == {"update_p2p_campaign", "update_sms_broadcast", "update_voice_broadcast"}

\* C4: for P2P, SMS-broadcast and voice-broadcast updates start, pause,
\* abort, end (any letter case) map to 1, 2, 3, 4, a digit string "1".."4"
\* to the same integer and an integer 1..4 to itself, and the dispatched
\* body is exactly {status: code}; pause is 2 here, not the call-center 4.
C4_BroadcastStatus ==
    (call.fn \in BroadcastFunctions /\ StatusUpdateReady) =>
        LET v == GivenStatus
            low == Lower(v.s)
        IN  /\ (IsStr(v) /\ low = S_start) => DispatchedStatus(1)
            /\ (IsStr(v) /\ low = S_pause) => DispatchedStatus(2)
            /\ (IsStr(v) /\ low = S_abort) => DispatchedStatus(3)
            /\ (IsStr(v) /\ low = S_end) => DispatchedStatus(4)
            /\ \A k \in 1 .. 4 :
                   /\ (v = PyStr(<<DigitChars[k + 1]>>)) => DispatchedStatus(k)
                   /\ (v = PyInt(k)) => DispatchedStatus(k)

\* An upper-case END reached the voice-broadcast endpoint as code 4.
C4_Witness ==
    /\ call.fn = "update_voice_broadcast"
    /\ GivenStatus = PyStr(<<"E","N","D">>)
    /\ Len(requests) = 1
    /\ requests[1].body = [status |-> PyInt(4)]

\* C5: update_sms_campaign, and the updateSmsCampaign tool, accept start,
\* pause, abort, end and 1-4 as strings or integers: each dispatches one
\* PATCH to the SMS campaign endpoint with body {status: n}.
C5_SmsCampaignStatus ==
    ( /\ call.fn \in {"update_sms_campaign", "updateSmsCampaign"}
      /\ ~Falsy(Get(call.params, "campaignId"))
      /\ Falsy(Get(call.params, "account")) )
    =>  LET v == GivenStatus
        IN  /\ (IsStr(v) /\ v.s = S_start) => DispatchedStatus(1)
            /\ (IsStr(v) /\ v.s = S_pause) => DispatchedStatus(2)
            /\ (IsStr(v) /\ v.s = S_abort) => DispatchedStatus(3)
            /\ (IsStr(v) /\ v.s = S_end) => DispatchedStatus(4)
            /\ \A k \in 1 .. 4 :
                   /\ (v = PyStr(<<DigitChars[k + 1]>>)) => DispatchedStatus(k)
                   /\ (v = PyInt(k)) => DispatchedStatus(k)

-----------------------------------------------------------------------------
(* Paginated listings: list_contacts, get_phonebook_contacts,               *)
(* list_dnc_contacts and list_dnc_lists.  One loop iteration is one step.   *)

\* The largest number of pages of the remote collection.
MaxPages == 3

\* The number of results a page may hold.
PageSizes == {0, 2}

\* One page of the remote collection: a failure, or `size` results and
\* whether a next cursor comes with them.
UpstreamPages ==
    [kind : {"ok"}, size : PageSizes, next : BOOLEAN]
        \cup {[kind |-> "error", size |-> 0, next |-> FALSE]}

Upstreams == UNION {[1 .. n -> UpstreamPages] : n \in 1 .. MaxPages}

\* The results of page p, each named by its page and its position in it.
PageItems(upstream, p) == [j \in 1 .. upstream[p].size |-> <<p, j>>]

\* The page a query asks for: the remote default is the first one.
RequestedPage(query) == IF "page" \in DOMAIN query THEN query["page"].n ELSE 1

\* The decoded answer to one GET: a page past the end is an error.
PageResponse(upstream, query) ==
    LET p == RequestedPage(query) IN
    IF p \in 1 .. Len(upstream) /\ upstream[p].kind = "ok"
    THEN [isError |-> FALSE, page |-> p, results |-> PageItems(upstream, p),
          next |-> upstream[p].next]
    ELSE [isError |-> TRUE, page |-> p, results |-> <<>>, next |-> FALSE]

\* params.get(k, d)
GetDefault(params, k, d) == IF k \in DOMAIN params THEN params[k] ELSE d

\* query = {"page": page}; if params.get("pageSize"): query["page_size"] = ...
LoopQuery(params, page) ==
    Strip([k \in {"page", "page_size"} |->
             IF k = "page" THEN page
             ELSE IF Falsy(Get(params, "pageSize")) THEN Absent
                  ELSE params["pageSize"]])

\* query = {}; page and page_size are added only when given and truthy
SinglePageQuery(params) ==
    Strip([k \in {"page", "page_size"} |->
             IF k = "page"
             THEN IF Falsy(Get(params, "page")) THEN Absent ELSE params["page"]
             ELSE IF Falsy(Get(params, "pageSize")) THEN Absent
                  ELSE params["pageSize"]])

\* all_pages = params.get("allPages", False), then tested for truth
AllPages(params) == ~Falsy(GetDefault(params, "allPages", PyBool(FALSE)))

NoListing ==
    [kind |-> "none", results |-> <<>>, count |-> None, page |-> 0, next |-> FALSE]

\* An error comes back with what was accumulated so far.
ResultReturned_Partial(result) ==
    [kind |-> IF result.isError THEN "accumulated" ELSE "page",
     results |-> IF result.isError THEN pgResults ELSE result.results,
     count |-> None, page |-> result.page, next |-> result.next]

\* return result: the decoded page, or the error envelope, as received
ResultReturned(result) ==
    [kind |-> IF result.isError THEN "error" ELSE "page", results |-> result.results,
     count |-> None, page |-> result.page, next |-> result.next]

\* return {"results": results} and, for the DNC listings, {"count": len, ...}
Accumulated(results, counted) ==
    [kind |-> "accumulated", results |-> results,
     count |-> IF counted THEN PyInt(Len(results)) ELSE None,
     page |-> 0, next |-> FALSE]

\* An error envelope built before any request.
ListingRejected ==
    [kind |-> "error", results |-> <<>>, count |-> None, page |-> 0, next |-> FALSE]

\* The constructor of McpApiClient raised.
ListingRaised ==
    [kind |-> "raised", results |-> <<>>, count |-> None, page |-> 0, next |-> FALSE]

\* The GET that client.call dispatches for `query`.
PageRequest(account, url, id, query) ==
    McpApiClient_call(account, url, id, "GET", None, query, None, "ok").reqs

\* The parameter dictionaries the listings are called with.
ListingParams(acctKey, idKey) ==
    {Strip([k \in {acctKey, idKey, "page", "pageSize", "allPages"} |->
              IF k = acctKey THEN a
              ELSE IF k = idKey THEN i
              ELSE IF k = "page" THEN pg
              ELSE IF k = "pageSize" THEN ps
              ELSE ap]) :
        a \in {Absent, PyStr(GhostName)},
        i \in {Absent, PyStr(<<"7">>)},
        pg \in {Absent, PyInt(1), PyInt(2)},
        ps \in {Absent, PyInt(10)},
        ap \in {Absent, PyBool(TRUE), PyBool(FALSE)}}

\* contacts.py: list_contacts up to its loop.  The loop starts at the page
\* that was given, with or without allPages.
StartListContacts ==
    /\ pgPc = "idle"
    /\ \E p \in ListingParams("accountName", "accountName"), u \in Upstreams :
        LET cfg == get_account_config(Get(p, "accountName")) IN
        /\ pgCall' = [fn |-> "list_contacts", params |-> p, upstream |-> u]
        /\ pgResults' = <<>>
        /\ pgRequests' = <<>>
        /\ IF cfg.ok
           THEN /\ pgPc' = "loop"
                /\ pgPage' = GetDefault(p, "page", PyInt(1))
                /\ pgReturn' = NoListing
           ELSE /\ pgPc' = "done"
                /\ pgPage' = None
                /\ pgReturn' = ListingRaised
    /\ UNCHANGED <<callVars, repairVars, storeVars>>

\* contacts.py: one iteration of the while loop of list_contacts.
LoopListContacts ==
    /\ pgPc = "loop"
    /\ pgCall.fn = "list_contacts"
    /\ LET params == pgCall.params
           account == get_account_config(Get(params, "accountName")).account
           query == LoopQuery(params, pgPage)
           result == PageResponse(pgCall.upstream, query)
       IN
       /\ pgRequests' = pgRequests \o PageRequest(account, "/v1/contacts/", None, query)
       /\ IF result.isError
          THEN /\ pgPc' = "done"
               /\ pgReturn' = ResultReturned(result)
               /\ UNCHANGED <<pgResults, pgPage>>
          ELSE IF AllPages(params)
          THEN /\ pgResults' = pgResults \o result.results
               /\ IF ~result.next
                  THEN /\ pgPc' = "done"
                       /\ pgReturn' = Accumulated(pgResults \o result.results, FALSE)
                       /\ UNCHANGED pgPage
                  ELSE /\ pgPc' = "loop"
                       /\ pgPage' = PyInt(pgPage.n + 1)
                       /\ UNCHANGED pgReturn
          ELSE /\ pgPc' = "done"
               /\ pgReturn' = ResultReturned(result)
               /\ UNCHANGED <<pgResults, pgPage>>
    /\ UNCHANGED <<pgCall, callVars, repairVars, storeVars>>

\* phonebooks.py: get_phonebook_contacts up to its loop; without allPages
\* it is one request for the page given.
StartGetPhonebookContacts ==
    /\ pgPc = "idle"
    /\ \E p \in ListingParams("accountName", "phonebookId"), u \in Upstreams :
        LET pb_id == Get(p, "phonebookId")
            cfg == get_account_config(Get(p, "accountName"))
            query == SinglePageQuery(p)
        IN
        /\ pgCall' = [fn |-> "get_phonebook_contacts", params |-> p, upstream |-> u]
        /\ pgResults' = <<>>
        /\ IF Falsy(pb_id)
           THEN /\ pgPc' = "done"
                /\ pgPage' = None
                /\ pgRequests' = <<>>
                /\ pgReturn' = ListingRejected
           ELSE IF ~cfg.ok
           THEN /\ pgPc' = "done"
                /\ pgPage' = None
                /\ pgRequests' = <<>>
                /\ pgReturn' = ListingRaised
           ELSE IF ~AllPages(p)
           THEN /\ pgPc' = "done"
                /\ pgPage' = None
                /\ pgRequests' = PageRequest(cfg.account, "/v1/phonebooks/{}/contacts/",
                                             pb_id, query)
                /\ pgReturn' = ResultReturned(PageResponse(u, query))
           ELSE /\ pgPc' = "loop"
                /\ pgPage' = PyInt(1)
                /\ pgRequests' = <<>>
                /\ pgReturn' = NoListing
    /\ UNCHANGED <<callVars, repairVars, storeVars>>

\* phonebooks.py: one iteration of the fetch-all loop.
LoopGetPhonebookContacts ==
    /\ pgPc = "loop"
    /\ pgCall.fn = "get_phonebook_contacts"
    /\ LET params == pgCall.params
           account == get_account_config(Get(params, "accountName")).account
           query == LoopQuery(params, pgPage)
           result == PageResponse(pgCall.upstream, query)
       IN
       /\ pgRequests' = pgRequests \o PageRequest(account, "/v1/phonebooks/{}/contacts/",
                                                  params["phonebookId"], query)
       /\ IF result.isError
          THEN /\ pgPc' = "done"
               /\ pgReturn' = ResultReturned(result)
               /\ UNCHANGED <<pgResults, pgPage>>
          ELSE /\ pgResults' = pgResults \o result.results
               /\ IF ~result.next
                  THEN /\ pgPc' = "done"
                       /\ pgReturn' = Accumulated(pgResults \o result.results, FALSE)
                       /\ UNCHANGED pgPage
                  ELSE /\ pgPc' = "loop"
                       /\ pgPage' = PyInt(pgPage.n + 1)
                       /\ UNCHANGED pgReturn
    /\ UNCHANGED <<pgCall, callVars, repairVars, storeVars>>

\* dnc.py: list_dnc_contacts up to its loop; without allPages it is one
\* request for the page given.
StartListDncContacts ==
    /\ pgPc = "idle"
    /\ \E p \in ListingParams("account", "account"), u \in Upstreams :
        LET cfg == get_account_config(Get(p, "account"))
            query == SinglePageQuery(p)
        IN
        /\ pgCall' = [fn |-> "list_dnc_contacts", params |-> p, upstream |-> u]
        /\ pgResults' = <<>>
        /\ IF ~cfg.ok
           THEN /\ pgPc' = "done"
                /\ pgPage' = None
                /\ pgRequests' = <<>>
                /\ pgReturn' = ListingRaised
           ELSE IF ~AllPages(p)
           THEN /\ pgPc' = "done"
                /\ pgPage' = None
                /\ pgRequests' = PageRequest(cfg.account, "ENDPOINTS.DNC_CONTACTS", None, query)
                /\ pgReturn' = ResultReturned(PageResponse(u, query))
           ELSE /\ pgPc' = "loop"
                /\ pgPage' = PyInt(1)
                /\ pgRequests' = <<>>
                /\ pgReturn' = NoListing
    /\ UNCHANGED <<callVars, repairVars, storeVars>>

\* dnc.py: one iteration of the fetch-all loop of list_dnc_contacts.
LoopListDncContacts ==
    /\ pgPc = "loop"
    /\ pgCall.fn = "list_dnc_contacts"
    /\ LET params == pgCall.params
           account == get_account_config(Get(params, "account")).account
           query == LoopQuery(params, pgPage)
           result == PageResponse(pgCall.upstream, query)
       IN
       /\ pgRequests' = pgRequests \o PageRequest(account, "ENDPOINTS.DNC_CONTACTS", None, query)
       /\ IF result.isError
          THEN /\ pgPc' = "done"
               /\ pgReturn' = ResultReturned(result)
               /\ UNCHANGED <<pgResults, pgPage>>
          ELSE /\ pgResults' = pgResults \o result.results
               /\ IF ~result.next
                  THEN /\ pgPc' = "done"
                       /\ pgReturn' = Accumulated(pgResults \o result.results, TRUE)
                       /\ UNCHANGED pgPage
                  ELSE /\ pgPc' = "loop"
                       /\ pgPage' = PyInt(pgPage.n + 1)
                       /\ UNCHANGED pgReturn
    /\ UNCHANGED <<pgCall, callVars, repairVars, storeVars>>

\* dnc.py: list_dnc_lists up to its loop; without allPages it is one
\* request for the page given.
StartListDncLists ==
    /\ pgPc = "idle"
    /\ \E p \in ListingParams("account", "account"), u \in Upstreams :
        LET cfg == get_account_config(Get(p, "account"))
            query == SinglePageQuery(p)
        IN
        /\ pgCall' = [fn |-> "list_dnc_lists", params |-> p, upstream |-> u]
        /\ pgResults' = <<>>
        /\ IF ~cfg.ok
           THEN /\ pgPc' = "done"
                /\ pgPage' = None
                /\ pgRequests' = <<>>
                /\ pgReturn' = ListingRaised
           ELSE IF ~AllPages(p)
           THEN /\ pgPc' = "done"
                /\ pgPage' = None
                /\ pgRequests' = PageRequest(cfg.account, "ENDPOINTS.DNC_LISTS", None, query)
                /\ pgReturn' = ResultReturned(PageResponse(u, query))
           ELSE /\ pgPc' = "loop"
                /\ pgPage' = PyInt(1)
                /\ pgRequests' = <<>>
                /\ pgReturn' = NoListing
    /\ UNCHANGED <<callVars, repairVars, storeVars>>

\* dnc.py: one iteration of the fetch-all loop of list_dnc_lists.
LoopListDncLists ==
    /\ pgPc = "loop"
    /\ pgCall.fn = "list_dnc_lists"
    /\ LET params == pgCall.params
           account == get_account_config(Get(params, "account")).account
           query == LoopQuery(params, pgPage)
           result == PageResponse(pgCall.upstream, query)
       IN
       /\ pgRequests' = pgRequests \o PageRequest(account, "ENDPOINTS.DNC_LISTS", None, query)
       /\ IF result.isError
          THEN /\ pgPc' = "done"
               /\ pgReturn' = ResultReturned(result)
               /\ UNCHANGED <<pgResults, pgPage>>
          ELSE /\ pgResults' = pgResults \o result.results
               /\ IF ~result.next
                  THEN /\ pgPc' = "done"
                       /\ pgReturn' = Accumulated(pgResults \o result.results, TRUE)
                       /\ UNCHANGED pgPage
                  ELSE /\ pgPc' = "loop"
                       /\ pgPage' = PyInt(pgPage.n + 1)
                       /\ UNCHANGED pgReturn
    /\ UNCHANGED <<pgCall, callVars, repairVars, storeVars>>

\* The listing has returned; the next one starts afresh.
FinishListing ==
    /\ pgPc = "done"
    /\ pgCall' = [fn |-> "none", params |-> NoBody, upstream |-> <<>>]
    /\ pgPc' = "idle"
    /\ pgPage' = None
    /\ pgResults' = <<>>
    /\ pgRequests' = <<>>
    /\ pgReturn' = NoListing
    /\ UNCHANGED <<callVars, repairVars, storeVars>>

NextPages ==
    \/ StartListContacts
    \/ LoopListContacts
    \/ StartGetPhonebookContacts
    \/ LoopGetPhonebookContacts
    \/ StartListDncContacts
    \/ LoopListDncContacts
    \/ StartListDncLists
    \/ LoopListDncLists
    \/ FinishListing

SpecPages == Init /\ [][NextPages]_vars

-----------------------------------------------------------------------------
(* Properties of the paginated listings *)

ListingFunctions ==
    {"list_contacts", "get_phonebook_contacts", "list_dnc_contacts", "list_dnc_lists"}

\* Every page answers, and every page but the last carries a next cursor.
WellFormed(upstream) ==
    \A i \in 1 .. Len(upstream) :
        /\ upstream[i].kind = "ok"
        /\ upstream[i].next = (i < Len(upstream))

RECURSIVE Concatenation(_, _)
\* The results of pages 1 .. n in page order.
Concatenation(upstream, n) ==
    IF n = 0 THEN <<>>
    ELSE Concatenation(upstream, n - 1) \o PageItems(upstream, n)

\* A listing returned after it got past its own parameter and account checks.
ListingServed ==
    /\ pgPc = "done"
    /\ pgCall.fn \in ListingFunctions
    /\ pgReturn.kind # "raised"
    /\ pgReturn # ListingRejected

\* C6: over a remote collection of N pages, each with a next cursor except
\* the last, a listing called with allPages true returns the results of all N
\* pages concatenated in page order after exactly N requests; called without
\* it, it makes exactly one request and returns that page as received.
C6_PaginationAccumulation ==
    (ListingServed /\ WellFormed(pgCall.upstream)) =>
        IF AllPages(pgCall.params)
        THEN /\ pgReturn.kind = "accumulated"
             /\ pgReturn.results =
                    Concatenation(pgCall.upstream, Len(pgCall.upstream))
             /\ Len(pgRequests) = Len(pgCall.upstream)
        ELSE /\ Len(pgRequests) = 1
             /\ pgReturn = ResultReturned(
                    PageResponse(pgCall.upstream, pgRequests[1].body))

-----------------------------------------------------------------------------
(* list_custom_fields and its repair of concatenated JSON.  A JSON text is  *)
(* a sequence of tokens: the braces, the comma, "a" and "b" for a complete  *)
(* member with a scalar value, "n" for a key and colon whose value is the   *)
(* object that follows, and "x" for text that is not JSON.                  *)

\* The largest number of fragments a message is made of.
MaxObjects == 3

\* Text from position i on.
Tail_from(text, i) == SubSeq(text, i, Len(text))

\* part.startswith(c) and part.endswith(c)
StartsWith(text, c) == Len(text) > 0 /\ text[1] = c

EndsWith(text, c) == Len(text) > 0 /\ text[Len(text)] = c

\* The first position at or after i where "}{" begins, or 0.
RECURSIVE FindJoint(_, _)
FindJoint(text, i) ==
    IF i + 1 > Len(text) THEN 0
    ELSE IF text[i] = "}" /\ text[i + 1] = "{" THEN i
    ELSE FindJoint(text, i + 1)

\* message.split("}{")
RECURSIVE Split(_)
Split(text) ==
    LET j == FindJoint(text, 1) IN
    IF j = 0 THEN <<text>>
    ELSE <<SubSeq(text, 1, j - 1)>> \o Split(Tail_from(text, j + 2))

\* The braces put back on part i of the split.
RepairPart(parts, i) ==
    LET closed == IF i < Len(parts) /\ ~EndsWith(parts[i], "}")
                  THEN parts[i] \o <<"}">> ELSE parts[i]
    IN IF i > 1 /\ ~StartsWith(closed, "{") THEN <<"{">> \o closed ELSE closed

\* Decoded JSON values.
Atom == [kind |-> "atom", members |-> <<>>]

ObjVal(members) == [kind |-> "obj", members |-> members]

ParseFailed == [ok |-> FALSE, pos |-> 0, val |-> Atom]

RECURSIVE ParseObj(_, _), ParseMembers(_, _, _)
\* An object starting at position i: its value and the position after it.
ParseObj(text, i) ==
    IF i > Len(text) \/ text[i] # "{" THEN ParseFailed
    ELSE IF i + 1 <= Len(text) /\ text[i + 1] = "}"
    THEN [ok |-> TRUE, pos |-> i + 2, val |-> ObjVal(<<>>)]
    ELSE ParseMembers(text, i + 1, <<>>)

\* The members of an object from position i on, after those in acc; a key
\* that comes again replaces the earlier one.
ParseMembers(text, i, acc) ==
    IF i > Len(text) THEN ParseFailed
    ELSE
      LET member ==
            IF text[i] \in {"a", "b"}
            THEN [ok |-> TRUE, pos |-> i + 1, val |-> Atom]
            ELSE IF text[i] = "n" THEN ParseObj(text, i + 1)
            ELSE ParseFailed
          members == (text[i] :> member.val) @@ acc
          j == member.pos
      IN IF ~member.ok \/ j > Len(text) THEN ParseFailed
         ELSE IF text[j] = "}"
         THEN [ok |-> TRUE, pos |-> j + 1, val |-> ObjVal(members)]
         ELSE IF text[j] = "," THEN ParseMembers(text, j + 1, members)
         ELSE ParseFailed

\* json.loads(part): the whole text has to be one value.
JsonLoads(text) ==
    LET r == ParseObj(text, 1) IN
    IF r.ok /\ r.pos = Len(text) + 1 THEN [ok |-> TRUE, val |-> r.val]
    ELSE [ok |-> FALSE, val |-> Atom]

\* The loop over the parts: a part that decodes is appended, one that does
\* not is reported on stderr and left out.
RECURSIVE JsonObjects(_, _)
JsonObjects(parts, n) ==
    IF n = 0 THEN <<>>
    ELSE LET obj == JsonLoads(RepairPart(parts, n)) IN
         JsonObjects(parts, n - 1) \o (IF obj.ok THEN <<obj.val>> ELSE <<>>)

\* {"count": len(json_objects), "results": json_objects}
Repaired(message) ==
    LET json_objects == JsonObjects(Split(message), Len(Split(message))) IN
    [kind |-> "repaired", count |-> Len(json_objects), results |-> json_objects]

\* JSON objects, among them objects whose last member is itself an object.
ValidFragments ==
    { <<"{","}">>, <<"{","a","}">>, <<"{","a",",","b","}">>,
      <<"{","n","{","}","}">>, <<"{","n","{","a","}","}">>,
      <<"{","b",",","n","{","}","}">>, <<"{","n","{","a","}",",","b","}">> }

\* Texts in braces that are not JSON.
InvalidFragments ==
    { <<"{","x","}">>, <<"{","a",",","}">>, <<"{","n","}">> }

\* Texts that are not even in braces.
GarbageFragments == { <<"x">>, <<"{","a">> }

Fragments == ValidFragments \cup InvalidFragments \cup GarbageFragments

RECURSIVE Join(_, _)
\* The first n of the fragments written one after the other, nothing between.
Join(objects, n) == IF n = 0 THEN <<>> ELSE Join(objects, n - 1) \o objects[n]

\* What the remote end answers to the listing: an error, a page with
\* results, a body with a message that is a string made of fragments, a
\* body whose message is not a string, and a body with neither key.
CustomFieldResponses ==
    {[kind |-> k, objects |-> <<>>] : k \in {"error", "results", "object", "other"}}
        \cup {[kind |-> "message", objects |-> o] :
                o \in UNION {[1 .. n -> Fragments] : n \in 1 .. MaxObjects}}

Message(response) == Join(response.objects, Len(response.objects))

\* custom_fields.py: list_custom_fields.
list_custom_fields(params, response) ==
    LET cfg == get_account_config(Get(params, "accountName"))
        query == SinglePageQuery(params)
        reqs == PageRequest(cfg.account, "ENDPOINTS.CUSTOM_FIELDS", None, query)
    IN
    IF ~cfg.ok
    THEN [kind |-> "raised", count |-> 0, results |-> <<>>, reqs |-> <<>>]
    ELSE IF response.kind = "error"
    THEN [kind |-> "error", count |-> 0, results |-> <<>>, reqs |-> reqs]
    ELSE IF response.kind = "message"
    THEN [kind |-> "repaired", count |-> Repaired(Message(response)).count,
          results |-> Repaired(Message(response)).results, reqs |-> reqs]
    ELSE IF response.kind = "object"
    THEN [kind |-> "parse_error", count |-> 0, results |-> <<>>, reqs |-> reqs]
    ELSE [kind |-> "unchanged", count |-> 0, results |-> <<>>, reqs |-> reqs]

CustomFieldParams ==
    {Strip([k \in {"accountName", "page", "pageSize"} |->
              IF k = "accountName" THEN a ELSE IF k = "page" THEN pg ELSE ps]) :
        a \in {Absent, PyStr(GhostName)},
        pg \in {Absent, PyInt(2)},
        ps \in {Absent, PyInt(10)}}

CallListCustomFields ==
    /\ cfCall.fn = "none"
    /\ \E p \in CustomFieldParams, r \in CustomFieldResponses :
        /\ cfCall' = [fn |-> "list_custom_fields", params |-> p, response |-> r]
        /\ cfReturn' = list_custom_fields(p, r)
    /\ UNCHANGED <<callVars, pageVars, storeVars>>

\* The listing has returned.
FinishCustomFields ==
    /\ cfCall.fn # "none"
    /\ cfCall' = [fn |-> "none", params |-> NoBody, response |-> NoBody]
    /\ cfReturn' = [kind |-> "none", count |-> 0, results |-> <<>>, reqs |-> <<>>]
    /\ UNCHANGED <<callVars, pageVars, storeVars>>

NextRepair == CallListCustomFields \/ FinishCustomFields

SpecRepair == Init /\ [][NextRepair]_vars

-----------------------------------------------------------------------------
(* Properties of the repair *)

\* The fragments of the message are texts in braces, so that they are
\* joined by "}{".
InBraces(objects) ==
    \A i \in 1 .. Len(objects) :
        StartsWith(objects[i], "{") /\ EndsWith(objects[i], "}")

RECURSIVE Decoded(_, _)
\* The values of those of the first n fragments that are JSON, in order.
Decoded(objects, n) ==
    IF n = 0 THEN <<>>
    ELSE Decoded(objects, n - 1) \o
         (IF JsonLoads(objects[n]).ok THEN <<JsonLoads(objects[n]).val>> ELSE <<>>)

\* list_custom_fields received a message string and no results.
MessageReceived ==
    /\ cfCall.fn = "list_custom_fields"
    /\ cfReturn.kind # "raised"
    /\ cfCall.response.kind = "message"

\* C7: when the response is a message string made of k JSON objects joined
\* by "}{", list_custom_fields returns count k and those k objects in order;
\* a fragment that is not JSON is left out and the others are still returned
\* in order; count is always the length of results.
C7_ConcatenatedJsonRepair ==
    MessageReceived =>
        /\ cfReturn.kind = "repaired"
        /\ cfReturn.count = Len(cfReturn.results)
        /\ InBraces(cfCall.response.objects) =>
             cfReturn.results =
                Decoded(cfCall.response.objects, Len(cfCall.response.objects))

-----------------------------------------------------------------------------
(* The credential store: account_management.py and the wrappers of          *)
(* tools_callhub.py.  `store` is the dictionary load_all_credentials         *)
(* returns and save_credentials writes; `fileExists` tells a missing file   *)
(* from an empty one.                                                        *)

\* The outcomes of the verification probe: its status, or a transport error.
Probes == {"200", "401", "network_error"}

\* response.status_code != 200 sends add_account back with a failure.
Verified(probe) == probe = "200"

\* The same step without the lowercasing.
StoreKey_AsGiven(account_name) == account_name.s

\* The same step keeping the first letter as it was given.
StoreKey_FirstKept(account_name) ==
    IF account_name.s = <<>> THEN <<>>
    ELSE <<Head(account_name.s)>> \o Lower(Tail(account_name.s))

\* account_name = account_name.lower()
StoreKey(account_name) == Lower(account_name.s)

\* An existence test that never finds the account.
AlreadyExists_Never(name, creds) == FALSE

\* if account_name in creds
AlreadyExists(name, creds) == name \in DOMAIN creds

\* An update that writes every argument, given or not.
Updated_Always(old, new) == new

\* if username: creds[account_name]["username"] = username
Updated(old, new) == IF Falsy(new) THEN old ELSE new

\* {"success": ..., "message": ...}, and the envelope the wrappers turn a
\* failure into.
OpResult(success, message) ==
    [success |-> success, isError |-> FALSE, message |-> message]

OpEnvelope(message) == [success |-> FALSE, isError |-> TRUE, message |-> message]

\* What an operation leaves behind: the store, the file and its result.
Left(creds, file, result) == [creds |-> creds, file |-> file, result |-> result]

\* load_all_credentials: a missing file raises FileNotFoundError.
load_all_credentials(creds, file) ==
    IF file THEN [found |-> TRUE, creds |-> creds]
    ELSE [found |-> FALSE, creds |-> NoBody]

\* account_management.py: add_account.  saveOk is whether save_credentials
\* could write the file.
add_account(creds, file, account_name, username, api_key, base_url, probe, saveOk) ==
    IF probe = "network_error"
    THEN Left(creds, file, OpResult(FALSE, "A network error occurred"))
    ELSE IF ~Verified(probe)
    THEN Left(creds, file, OpResult(FALSE, "Failed to verify credentials"))
    ELSE IF ~IsStr(account_name)
    THEN Left(creds, file, OpResult(FALSE, "Error adding account"))
    ELSE
      LET name == StoreKey(account_name)
          loaded == load_all_credentials(creds, file).creds
      IN IF AlreadyExists(name, loaded)
         THEN Left(creds, file, OpResult(FALSE, "already exists"))
         ELSE IF ~saveOk
         THEN Left(creds, file, OpResult(FALSE, "Error adding account"))
         ELSE Left((name :> [username |-> username, api_key |-> api_key,
                             base_url |-> base_url]) @@ loaded,
                   TRUE, OpResult(TRUE, "verified and added successfully"))

\* account_management.py: update_account.
update_account(creds, file, account_name, username, api_key, base_url, saveOk) ==
    IF ~IsStr(account_name)
    THEN Left(creds, file, OpResult(FALSE, "Error updating account"))
    ELSE
      LET name == StoreKey(account_name)
          loaded == load_all_credentials(creds, file)
      IN IF ~loaded.found
         THEN Left(creds, file, OpResult(FALSE, "No credentials file found"))
         ELSE IF name \notin DOMAIN loaded.creds
         THEN Left(creds, file, OpResult(FALSE, "does not exist"))
         ELSE IF ~saveOk
         THEN Left(creds, file, OpResult(FALSE, "Error updating account"))
         ELSE Left([loaded.creds EXCEPT ![name] =
                       [username |-> Updated(@.username, username),
                        api_key  |-> Updated(@.api_key, api_key),
                        base_url |-> Updated(@.base_url, base_url)]],
                   TRUE, OpResult(TRUE, "updated successfully"))

\* A deletion that leaves the whole dictionary as it was.
Removed_Nothing(creds, name) == creds

\* del creds[account_name]
Removed(creds, name) == [n \in DOMAIN creds \ {name} |-> creds[n]]

\* account_management.py: delete_account.
delete_account(creds, file, account_name, saveOk) ==
    IF ~IsStr(account_name)
    THEN Left(creds, file, OpResult(FALSE, "Error deleting account"))
    ELSE
      LET name == StoreKey(account_name)
          loaded == load_all_credentials(creds, file)
      IN IF ~loaded.found
         THEN Left(creds, file, OpResult(FALSE, "No credentials file found"))
         ELSE IF name \notin DOMAIN loaded.creds
         THEN Left(creds, file, OpResult(FALSE, "does not exist"))
         ELSE IF ~saveOk
         THEN Left(creds, file, OpResult(FALSE, "Error deleting account"))
         ELSE Left(Removed(loaded.creds, name),
                   TRUE, OpResult(TRUE, "deleted successfully"))

\* A failure of the function becomes an error envelope carrying its message.
Wrapped(left) ==
    IF left.result.success THEN left
    ELSE Left(left.creds, left.file, OpEnvelope(left.result.message))

\* tools_callhub.py: add_callhub_account.
add_callhub_account(creds, file, params, probe, saveOk) ==
    LET account_name == Get(params, "accountName")
        username == Get(params, "username")
        api_key == Get(params, "apiKey")
        base_url == Get(params, "baseUrl")
    IN IF Falsy(account_name) \/ Falsy(username) \/ Falsy(api_key) \/ Falsy(base_url)
       THEN Left(creds, file, OpEnvelope("All credential fields are required"))
       ELSE Wrapped(add_account(creds, file, account_name, username, api_key,
                                base_url, probe, saveOk))

\* tools_callhub.py: update_callhub_account.
update_callhub_account(creds, file, params, saveOk) ==
    LET account_name == Get(params, "accountName")
        username == Get(params, "username")
        api_key == Get(params, "apiKey")
        base_url == Get(params, "baseUrl")
    IN IF Falsy(account_name)
       THEN Left(creds, file, OpEnvelope("'accountName' is required."))
       ELSE IF Falsy(username) /\ Falsy(api_key) /\ Falsy(base_url)
       THEN Left(creds, file, OpEnvelope("At least one field must be provided"))
       ELSE Wrapped(update_account(creds, file, account_name, username, api_key,
                                   base_url, saveOk))

\* tools_callhub.py: delete_callhub_account.
delete_callhub_account(creds, file, params, saveOk) ==
    LET account_name == Get(params, "accountName") IN
    IF Falsy(account_name)
    THEN Left(creds, file, OpEnvelope("'accountName' is required."))
    ELSE Wrapped(delete_account(creds, file, account_name, saveOk))

\* tools_callhub.py: list_accounts, the keys of the loaded dictionary.
list_accounts(creds, file) ==
    LET loaded == load_all_credentials(creds, file) IN
    [found |-> loaded.found, accounts |-> DOMAIN loaded.creds]

\* server.py: configure_account_tool.  An account that is listed, compared
\* in lowercase, is updated; any other is added.  An exception of
\* list_accounts or of accountName.lower() is caught into an envelope.
configure_account_tool(creds, file, args, probe, saveOk) ==
    LET listed == list_accounts(creds, file)
        params == [k \in {"accountName", "username", "apiKey", "baseUrl"} |->
                     IF k = "accountName" THEN args.account_name
                     ELSE IF k = "username" THEN args.username
                     ELSE IF k = "apiKey" THEN args.api_key
                     ELSE args.base_url]
    IN
    IF ~listed.found
    THEN Left(creds, file, OpEnvelope("FileNotFoundError"))
    ELSE IF ~IsStr(args.account_name)
    THEN Left(creds, file, OpEnvelope("AttributeError"))
    ELSE IF Lower(args.account_name.s) \in {Lower(a) : a \in listed.accounts}
    THEN update_callhub_account(creds, file, params, saveOk)
    ELSE add_callhub_account(creds, file, params, probe, saveOk)

\* The configuration of no account.
NoConfig == [username |-> None, api_key |-> None, base_url |-> None]

\* The account resolver over the store: no name is the default account, a
\* name that is not in the store is not found.
resolve_account(creds, name) ==
    LET key == IF Falsy(name) THEN DefaultName ELSE Lower(name.s) IN
    IF key \in DOMAIN creds THEN [ok |-> TRUE, config |-> creds[key]]
    ELSE [ok |-> FALSE, config |-> NoConfig]

\* The values the operations are called with.
AccountNames == {PyStr(<<"a","b">>), PyStr(<<"A","b">>), PyStr(<<"c","d">>)}

Usernames == {PyStr(<<"u","1">>), PyStr(<<"u","2">>)}

ApiKeys == {PyStr(<<"k","1">>), PyStr(<<"k","2">>)}

BaseUrls == {PyStr(<<"b","1">>), PyStr(<<"b","2">>)}

\* A value that may also be left out or given empty.
Optional(values) == values \cup {None, PyStr(<<>>)}

Args(account_name, username, api_key, base_url) ==
    [account_name |-> account_name, username |-> username,
     api_key |-> api_key, base_url |-> base_url]

\* The dictionary a wrapper receives; an argument of None is a missing key.
AccountParams(a) ==
    LET given == {k \in {"accountName", "username", "apiKey", "baseUrl"} :
                    (IF k = "accountName" THEN a.account_name
                     ELSE IF k = "username" THEN a.username
                     ELSE IF k = "apiKey" THEN a.api_key
                     ELSE a.base_url) # None}
    IN [k \in given |->
          IF k = "accountName" THEN a.account_name
          ELSE IF k = "username" THEN a.username
          ELSE IF k = "apiKey" THEN a.api_key
          ELSE a.base_url]

\* The record of an operation: what it was called with, the store it found
\* and what it returned.
Op(op, args, probe, left) ==
    [op |-> op, args |-> args, probe |-> probe,
     before |-> store, beforeFile |-> fileExists, result |-> left.result]

AddAccount ==
    /\ lastOp = NoOp
    /\ \E n \in AccountNames \cup {None}, u \in Usernames, k \in ApiKeys,
          b \in BaseUrls, probe \in Probes, saveOk \in BOOLEAN :
        LET left == add_account(store, fileExists, n, u, k, b, probe, saveOk) IN
        /\ store' = left.creds
        /\ fileExists' = left.file
        /\ lastOp' = Op("add_account", Args(n, u, k, b), probe, left)
    /\ UNCHANGED <<running, callVars, pageVars, repairVars>>

UpdateAccount ==
    /\ lastOp = NoOp
    /\ \E n \in AccountNames \cup {None}, u \in Optional(Usernames),
          k \in Optional(ApiKeys), b \in Optional(BaseUrls), saveOk \in BOOLEAN :
        LET left == update_account(store, fileExists, n, u, k, b, saveOk) IN
        /\ store' = left.creds
        /\ fileExists' = left.file
        /\ lastOp' = Op("update_account", Args(n, u, k, b), "none", left)
    /\ UNCHANGED <<running, callVars, pageVars, repairVars>>

DeleteAccount ==
    /\ lastOp = NoOp
    /\ \E n \in AccountNames \cup {None}, saveOk \in BOOLEAN :
        LET left == delete_account(store, fileExists, n, saveOk) IN
        /\ store' = left.creds
        /\ fileExists' = left.file
        /\ lastOp' = Op("delete_account", Args(n, None, None, None), "none", left)
    /\ UNCHANGED <<running, callVars, pageVars, repairVars>>

AddCallhubAccount ==
    /\ lastOp = NoOp
    /\ \E n \in Optional(AccountNames), u \in Optional(Usernames),
          k \in Optional(ApiKeys), b \in Optional(BaseUrls),
          probe \in Probes, saveOk \in BOOLEAN :
        LET left == add_callhub_account(store, fileExists,
                        AccountParams(Args(n, u, k, b)), probe, saveOk) IN
        /\ store' = left.creds
        /\ fileExists' = left.file
        /\ lastOp' = Op("add_callhub_account", Args(n, u, k, b), probe, left)
    /\ UNCHANGED <<running, callVars, pageVars, repairVars>>

UpdateCallhubAccount ==
    /\ lastOp = NoOp
    /\ \E n \in Optional(AccountNames), u \in Optional(Usernames),
          k \in Optional(ApiKeys), b \in Optional(BaseUrls), saveOk \in BOOLEAN :
        LET left == update_callhub_account(store, fileExists,
                        AccountParams(Args(n, u, k, b)), saveOk) IN
        /\ store' = left.creds
        /\ fileExists' = left.file
        /\ lastOp' = Op("update_callhub_account", Args(n, u, k, b), "none", left)
    /\ UNCHANGED <<running, callVars, pageVars, repairVars>>

DeleteCallhubAccount ==
    /\ lastOp = NoOp
    /\ \E n \in Optional(AccountNames), saveOk \in BOOLEAN :
        LET left == delete_callhub_account(store, fileExists,
                        AccountParams(Args(n, None, None, None)), saveOk) IN
        /\ store' = left.creds
        /\ fileExists' = left.file
        /\ lastOp' = Op("delete_callhub_account", Args(n, None, None, None),
                        "none", left)
    /\ UNCHANGED <<running, callVars, pageVars, repairVars>>

ConfigureAccount ==
    /\ lastOp = NoOp
    /\ \E n \in Optional(AccountNames), u \in Optional(Usernames),
          k \in Optional(ApiKeys), b \in Optional(BaseUrls),
          probe \in Probes, saveOk \in BOOLEAN :
        LET left == configure_account_tool(store, fileExists, Args(n, u, k, b),
                                           probe, saveOk) IN
        /\ store' = left.creds
        /\ fileExists' = left.file
        /\ lastOp' = Op("configureAccount", Args(n, u, k, b), probe, left)
    /\ UNCHANGED <<running, callVars, pageVars, repairVars>>

\* The operation has returned; the store stays as it left it.
Settle ==
    /\ lastOp # NoOp
    /\ lastOp' = NoOp
    /\ UNCHANGED <<store, fileExists, running, callVars, pageVars, repairVars>>

NextStore ==
    \/ AddAccount
    \/ UpdateAccount
    \/ DeleteAccount
    \/ AddCallhubAccount
    \/ UpdateCallhubAccount
    \/ DeleteCallhubAccount
    \/ ConfigureAccount
    \/ Settle

SpecStore == Init /\ [][NextStore]_vars

-----------------------------------------------------------------------------
(* Properties of the credential store *)

AddOps == {"add_account", "add_callhub_account"}

UpdateOps == {"update_account", "update_callhub_account"}

\* The lowercase form of the name the last operation was given.
LowerName == Lower(lastOp.args.account_name.s)

\* The credentials the last operation was given.
GivenConfig ==
    [username |-> lastOp.args.username, api_key |-> lastOp.args.api_key,
     base_url |-> lastOp.args.base_url]

\* Every account but `name` is as the operation found it.
OthersUnchanged(name) ==
    /\ DOMAIN store \ {name} = DOMAIN lastOp.before \ {name}
    /\ \A m \in DOMAIN store \ {name} : store[m] = lastOp.before[m]

\* C8: after a successful add_account(name, u, k, b) the store maps
\* lowercase(name) to exactly (u, k, b), resolving that account gives the
\* same triple, and every other account is unchanged.
C8_AddThenResolve ==
    (lastOp.op \in AddOps /\ lastOp.result.success) =>
        /\ LowerName \in DOMAIN store
        /\ store[LowerName] = GivenConfig
        /\ resolve_account(store, PyStr(LowerName)) =
               [ok |-> TRUE, config |-> GivenConfig]
        /\ resolve_account(store, lastOp.args.account_name) =
               [ok |-> TRUE, config |-> GivenConfig]
        /\ OthersUnchanged(LowerName)

\* An account was added under a name given with a capital, next to another.
C8_Witness ==
    /\ lastOp.op \in AddOps
    /\ lastOp.result.success
    /\ lastOp.args.account_name = PyStr(<<"A","b">>)
    /\ DOMAIN lastOp.before = {<<"c","d">>}
    /\ store[<<"a","b">>] = GivenConfig

\* C9: add_account writes nothing unless the probe answered 200 and the
\* lowercase name is not in the store yet: after another status, a network
\* error or an existing name it reports failure and the store, the existing
\* account included, is as before.
C9_AddRefused ==
    lastOp.op \in AddOps =>
        /\ (store # lastOp.before \/ lastOp.result.success) =>
              /\ lastOp.probe = "200"
              /\ LowerName \notin DOMAIN lastOp.before
        /\ (lastOp.probe # "200" \/ LowerName \in DOMAIN lastOp.before) =>
              /\ ~lastOp.result.success
              /\ store = lastOp.before
              /\ fileExists = lastOp.beforeFile

\* A verified add of a name that is already there, with other credentials.
C9_Witness ==
    /\ lastOp.op \in AddOps
    /\ lastOp.probe = "200"
    /\ IsStr(lastOp.args.account_name)
    /\ LowerName \in DOMAIN lastOp.before
    /\ lastOp.before[LowerName] # GivenConfig
    /\ ~lastOp.result.success
    /\ store = lastOp.before

\* An argument of update_account that was supplied.
Supplied(v) == ~Falsy(v)

\* C10: update_account overwrites only the supplied fields of the account
\* lowercase(name) and leaves its other fields and every other account as
\* they were; when the store file does not exist or the name is absent it
\* fails and the store is unchanged.
C10_UpdateFrame ==
    lastOp.op \in UpdateOps =>
        /\ lastOp.result.success =>
              /\ LowerName \in DOMAIN lastOp.before
              /\ LowerName \in DOMAIN store
              /\ OthersUnchanged(LowerName)
              /\ \A f \in {"username", "api_key", "base_url"} :
                    store[LowerName][f] =
                        IF Supplied(GivenConfig[f]) THEN GivenConfig[f]
                        ELSE lastOp.before[LowerName][f]
        /\ ~lastOp.result.success => store = lastOp.before
        /\ (~lastOp.beforeFile \/ LowerName \notin DOMAIN lastOp.before) =>
              /\ ~lastOp.result.success
              /\ store = lastOp.before
              /\ fileExists = lastOp.beforeFile

\* One field of one of two accounts was overwritten.
C10_Witness ==
    /\ lastOp.op \in UpdateOps
    /\ lastOp.result.success
    /\ Cardinality(DOMAIN lastOp.before) = 2
    /\ Supplied(lastOp.args.api_key)
    /\ ~Supplied(lastOp.args.username)
    /\ ~Supplied(lastOp.args.base_url)
    /\ store[LowerName].api_key # lastOp.before[LowerName].api_key
    /\ store[LowerName].username = lastOp.before[LowerName].username

DeleteOps == {"delete_account", "delete_callhub_account"}

\* C11: delete_account(name) removes exactly the entry lowercase(name) and
\* leaves every other account as it was; afterwards resolving that name and
\* deleting it again both fail as not found; deleting a name that is absent
\* fails and leaves the store unchanged.
C11_DeleteFrame ==
    lastOp.op \in DeleteOps =>
        /\ lastOp.result.success =>
              /\ LowerName \in DOMAIN lastOp.before
              /\ LowerName \notin DOMAIN store
              /\ OthersUnchanged(LowerName)
              /\ ~resolve_account(store, lastOp.args.account_name).ok
              /\ ~delete_account(store, fileExists, lastOp.args.account_name,
                                 TRUE).result.success
              /\ delete_account(store, fileExists, lastOp.args.account_name,
                                TRUE).creds = store
        /\ (~IsStr(lastOp.args.account_name)
                \/ LowerName \notin DOMAIN lastOp.before) =>
              /\ ~lastOp.result.success
              /\ store = lastOp.before
              /\ fileExists = lastOp.beforeFile

\* One of two accounts was deleted under a name given with a capital.
C11_Witness ==
    /\ lastOp.op \in DeleteOps
    /\ lastOp.result.success
    /\ lastOp.args.account_name = PyStr(<<"A","b">>)
    /\ DOMAIN lastOp.before = {<<"a","b">>, <<"c","d">>}
    /\ DOMAIN store = {<<"c","d">>}
    /\ store[<<"c","d">>] = lastOp.before[<<"c","d">>]

\* C12: from a store whose names are lowercase, after any sequence of add,
\* update, delete and configureAccount operations, with names given in any
\* letter case, every account name in the store is lowercase and no two
\* names are equal ignoring case.
C12_LowercaseNames ==
    /\ \A n \in DOMAIN store : n = Lower(n)
    /\ \A n, m \in DOMAIN store : Lower(n) = Lower(m) => n = m

\* configureAccount changed an account it was given with a capital, in a
\* store of two accounts.
C12_Witness ==
    /\ lastOp.op = "configureAccount"
    /\ lastOp.result.success
    /\ lastOp.args.account_name = PyStr(<<"A","b">>)
    /\ store # lastOp.before
    /\ DOMAIN store = {<<"a","b">>, <<"c","d">>}

-----------------------------------------------------------------------------
(* contacts.py: create_contacts_bulk, which posts with requests directly    *)
(* and reads the status and the Retry-After header of the response itself.  *)

\* The status of the response, or a transport failure of requests.post.
BulkStatuses == {"200", "204", "429", "500", "network_error"}

\* The Retry-After header of the response: absent, or its text.
RetryAfterHeaders ==
    {Absent, PyStr(<<"4","2">>), PyStr(<<"0">>), PyStr(<<"1","2","0">>)}

\* What answers a bulk import, and whether the local CSV file opens.
BulkResponses ==
    [status : BulkStatuses, retry_after : RetryAfterHeaders,
     file : {"readable", "missing"}]

\* A retry hint that ignores the header.
RetryHint_Fixed(retry_after) == PyInt(60)

\* "retryAfter": retry_after if retry_after else 60
RetryHint(retry_after) == IF Falsy(retry_after) THEN PyInt(60) ELSE retry_after

\* resp.headers.get('retry-after') or resp.headers.get('Retry-After')
HeaderValue(resp) == IF resp.retry_after = Absent THEN None ELSE resp.retry_after

\* The envelope of a rate-limited import: the flag and the hint ride along.
RateLimited(retry_after) ==
    [raised |-> FALSE, isError |-> TRUE,
     content |-> <<[type |-> "text", text |-> "rate limited"]>>, data |-> "",
     isRateLimited |-> TRUE, retryAfter |-> RetryHint(retry_after)]

\* The form fields of the import.
BulkData(params, withUrl) ==
    Strip([k \in {"phonebook_id", "country_choice", "mapping", "country_iso", "csv_url"} |->
             IF k = "phonebook_id" THEN Get(params, "phonebook_id")
             ELSE IF k = "country_choice"
                  THEN GetDefault(params, "country_choice", PyStr(<<"f","i","l","e">>))
             ELSE IF k = "mapping" THEN Obj
             ELSE IF k = "country_iso"
                  THEN IF GetDefault(params, "country_choice", PyStr(<<"f","i","l","e">>))
                            = PyStr(<<"c","u","s","t","o","m">>)
                       THEN Get(params, "country_iso") ELSE Absent
             ELSE IF withUrl THEN Get(params, "csv_url") ELSE Absent])

\* What create_contacts_bulk makes of the response.
BulkOutcome(resp) ==
    IF resp.status = "network_error" THEN ErrorEnvelope("network error")
    ELSE IF resp.status = "429" THEN RateLimited(HeaderValue(resp))
    ELSE IF resp.status = "500" THEN ErrorEnvelope("HTTP error")
    ELSE IF resp.status = "204" THEN Success("started")
    ELSE Success("response")

\* contacts.py: create_contacts_bulk.
create_contacts_bulk(params, resp) ==
    LET cfg == get_account_config(Get(params, "accountName"))
        custom == GetDefault(params, "country_choice", PyStr(<<"f","i","l","e">>))
                      = PyStr(<<"c","u","s","t","o","m">>)
        upload == ~Falsy(Get(params, "csv_file_path"))
    IN
    IF ~cfg.ok THEN Local(Raised(AccountNotFound))
    ELSE IF Falsy(Get(params, "phonebook_id"))
    THEN Local(ErrorEnvelope("'phonebook_id' is required."))
    ELSE IF ~upload /\ Falsy(Get(params, "csv_url"))
    THEN Local(ErrorEnvelope("Either 'csv_file_path' or 'csv_url' must be provided."))
    ELSE IF custom /\ Falsy(Get(params, "country_iso"))
    THEN Local(ErrorEnvelope("'country_iso' is required"))
    ELSE IF upload /\ resp.file = "missing"
    THEN Local(ErrorEnvelope("File not found"))
    ELSE [reqs |-> <<[method |-> "POST", url |-> "v1/contacts/bulk_create/",
                      id |-> None, kind |-> IF upload THEN "multipart" ELSE "form",
                      body |-> BulkData(params, ~upload), account |-> cfg.account]>>,
          ret |-> BulkOutcome(resp)]

\* server.py: create_contacts_bulk_tool.  Only truthy arguments are passed
\* on; a rate-limited result is rewritten as an envelope of two texts.
create_contacts_bulk_tool(args, resp) ==
    LET params ==
            Strip([k \in {"accountName", "phonebook_id", "country_choice",
                          "country_iso", "csv_file_path", "csv_url"} |->
                     LET v == Get(args, IF k = "accountName" THEN "account" ELSE k)
                     IN IF Falsy(v) THEN Absent ELSE v])
        r == Caught(create_contacts_bulk(params, resp))
    IN IF "isRateLimited" \in DOMAIN r.ret
       THEN [reqs |-> r.reqs,
             ret |-> [raised |-> FALSE, isError |-> TRUE,
                      content |-> <<[type |-> "text", text |-> "rate limited"],
                                    [type |-> "text", text |-> "wait time"]>>,
                      data |-> ""]]
       ELSE r

BulkParams(acctKey) ==
    {Strip([k \in {acctKey, "phonebook_id", "country_choice", "country_iso",
                   "csv_file_path", "csv_url"} |->
              IF k = acctKey THEN a
              ELSE IF k = "phonebook_id" THEN pb
              ELSE IF k = "country_choice" THEN cc
              ELSE IF k = "country_iso" THEN ci
              ELSE IF k = "csv_file_path" THEN fp
              ELSE cu]) :
        a \in {Absent, PyStr(GhostName)},
        pb \in {Absent, PyStr(<<"7">>)},
        cc \in {Absent, PyStr(<<"f","i","l","e">>), PyStr(<<"c","u","s","t","o","m">>)},
        ci \in {Absent, PyStr(<<"U","S">>)},
        fp \in {Absent, PyStr(<<"f",".","c","s","v">>)},
        cu \in {Absent, PyStr(<<"h","t","t","p">>)}}

CallCreateContactsBulk ==
    /\ Idle
    /\ \E p \in BulkParams("accountName"), resp \in BulkResponses :
        LET r == create_contacts_bulk(p, resp) IN
        /\ call' = Invocation("create_contacts_bulk", p, resp)
        /\ requests' = r.reqs
        /\ outcome' = r.ret
    /\ UNCHANGED <<pageVars, repairVars, storeVars>>

CallCreateContactsBulkTool ==
    /\ Idle
    /\ \E p \in BulkParams("account"), resp \in BulkResponses :
        LET r == create_contacts_bulk_tool(p, resp) IN
        /\ call' = Invocation("createContactsBulk", p, resp)
        /\ requests' = r.reqs
        /\ outcome' = r.ret
    /\ UNCHANGED <<pageVars, repairVars, storeVars>>

NextBulk ==
    \/ CallCreateContactsBulk
    \/ CallCreateContactsBulkTool
    \/ Finish

SpecBulk == Init /\ [][NextBulk]_vars

\* C13: when the bulk contact import receives HTTP 429, create_contacts_bulk
\* returns an error envelope with isRateLimited true and retryAfter equal to
\* the value of the Retry-After header of the response, or 60 when the
\* response has no such header.
C13_RateLimitHint ==
    ( /\ call.fn = "create_contacts_bulk"
      /\ Len(requests) = 1
      /\ call.resp.status = "429" )
    =>  /\ IsErrorEnvelope(outcome)
        /\ "isRateLimited" \in DOMAIN outcome
        /\ outcome.isRateLimited = TRUE
        /\ outcome.retryAfter =
              IF call.resp.retry_after = Absent THEN PyInt(60)
              ELSE call.resp.retry_after

\* A 429 with Retry-After: 42 came back with the hint 42.
C13_Witness ==
    /\ call.fn = "create_contacts_bulk"
    /\ Len(requests) = 1
    /\ call.resp.status = "429"
    /\ call.resp.retry_after = PyStr(<<"4","2">>)
    /\ outcome.isError
    /\ outcome.retryAfter = PyStr(<<"4","2">>)

-----------------------------------------------------------------------------
(* The do-not-call resource functions of callhub/dnc.py and their tools *)

\* {"isError": True, "content": [{"text": msg}]}: the validation failure of
\* dnc.py, whose content item carries a text and no "type".
DncEnvelope(msg) ==
    [raised |-> FALSE, isError |-> TRUE, content |-> <<[text |-> msg]>>, data |-> ""]

create_dnc_contact(params, resp) ==
    LET dnc == Get(params, "dnc")
        phone_number == Get(params, "phone_number")
        category == GetDefault(params, "category", PyInt(3))
    IN
    IF Falsy(dnc) THEN Local(DncEnvelope("'dnc' is required."))
    ELSE IF Falsy(phone_number) THEN Local(DncEnvelope("'phone_number' is required."))
    ELSE ClientCall(Get(params, "account"), "ENDPOINTS.DNC_CONTACTS", None, "POST", None, None,
                    [dnc |-> dnc, phone_number |-> phone_number, category |-> category], resp)

update_dnc_contact(params, resp) ==
    LET contact_id == Get(params, "contactId")
        dnc == Get(params, "dnc")
        phone_number == Get(params, "phone_number")
    IN
    IF Falsy(contact_id) THEN Local(DncEnvelope("'contactId' is required."))
    ELSE IF Falsy(dnc) THEN Local(DncEnvelope("'dnc' is required."))
    ELSE IF Falsy(phone_number) THEN Local(DncEnvelope("'phone_number' is required."))
    ELSE ClientCall(Get(params, "account"), "ENDPOINTS.DNC_CONTACTS{}/", contact_id, "PUT", None, None,
                    [dnc |-> dnc, phone_number |-> phone_number], resp)

delete_dnc_contact(params, resp) ==
    LET contact_id == Get(params, "contactId") IN
    IF Falsy(contact_id) THEN Local(DncEnvelope("'contactId' is required."))
    ELSE ClientCall(Get(params, "account"), "ENDPOINTS.DNC_CONTACTS{}/", contact_id, "DELETE",
                    None, None, None, resp)

create_dnc_list(params, resp) ==
    LET name == Get(params, "name") IN
    IF Falsy(name) THEN Local(DncEnvelope("'name' is required."))
    ELSE ClientCall(Get(params, "account"), "ENDPOINTS.DNC_LISTS", None, "POST", None, None,
                    [name |-> name], resp)

update_dnc_list(params, resp) ==
    LET list_id == Get(params, "listId")
        name == Get(params, "name")
    IN
    IF Falsy(list_id) THEN Local(DncEnvelope("'listId' is required."))
    ELSE IF Falsy(name) THEN Local(DncEnvelope("'name' is required."))
    ELSE ClientCall(Get(params, "account"), "ENDPOINTS.DNC_LISTS{}/", list_id, "PUT", None, None,
                    [name |-> name], resp)

delete_dnc_list(params, resp) ==
    LET list_id == Get(params, "listId") IN
    IF Falsy(list_id) THEN Local(DncEnvelope("'listId' is required."))
    ELSE ClientCall(Get(params, "account"), "ENDPOINTS.DNC_LISTS{}/", list_id, "DELETE",
                    None, None, None, resp)

\* The keys each function reads besides "account".
DncKeys ==
    [ create_dnc_contact |-> {"dnc", "phone_number", "category"},
      update_dnc_contact |-> {"contactId", "dnc", "phone_number"},
      delete_dnc_contact |-> {"contactId"},
      create_dnc_list |-> {"name"},
      update_dnc_list |-> {"listId", "name"},
      delete_dnc_list |-> {"listId"} ]

\* The keys a function refuses to go without.
DncRequired == [fn \in DOMAIN DncKeys |-> DncKeys[fn] \ {"category"}]

dnc_function(fn, params, resp) ==
    CASE fn = "create_dnc_contact" -> create_dnc_contact(params, resp)
      [] fn = "update_dnc_contact" -> update_dnc_contact(params, resp)
      [] fn = "delete_dnc_contact" -> delete_dnc_contact(params, resp)
      [] fn = "create_dnc_list" -> create_dnc_list(params, resp)
      [] fn = "update_dnc_list" -> update_dnc_list(params, resp)
      [] fn = "delete_dnc_list" -> delete_dnc_list(params, resp)

\* The dictionaries and keyword arguments handed in: each key omitted, empty
\* or given; the category omitted or 1; the account omitted, configured
\* (in two spellings) or unknown.
DncParams(keys) ==
    { Strip([k \in keys \cup {"account"} |-> f[k]]) :
        f \in { g \in [keys \cup {"account"} -> CampaignIds \cup AccountValues \cup {PyInt(1)}] :
                  \A k \in keys \cup {"account"} :
                     g[k] \in ( IF k = "account" THEN AccountValues
                                ELSE IF k = "category" THEN {Absent, PyInt(1)}
                                ELSE CampaignIds ) } }

CallDncFunction ==
    /\ Idle
    /\ \E fn \in DOMAIN DncKeys :
       \E p \in DncParams(DncKeys[fn]), resp \in Responses :
        LET r == dnc_function(fn, p, resp) IN
        /\ call' = Invocation(fn, p, resp)
        /\ requests' = r.reqs
        /\ outcome' = r.ret
    /\ UNCHANGED <<pageVars, repairVars, storeVars>>

-----------------------------------------------------------------------------
(* Tools of server.py in front of the resource functions *)

\* A dictionary passed as a value (campaign_data, template_data).
PyDict(d) == [t |-> "dict", s |-> <<>>, n |-> 0, d |-> d]

\* Every dictionary that gives each key of `choices` one of its values, the
\* keys given as Absent being omitted.
Dicts(choices) ==
    { Strip(f) : f \in { g \in [DOMAIN choices -> UNION {choices[k] : k \in DOMAIN choices}] :
                           \A k \in DOMAIN choices : g[k] \in choices[k] } }

\* if account: params["accountName"] = account
Named(account) == IF Falsy(account) THEN Absent ELSE account

\* A call f(account=..., dnc=...) binds its keywords to the parameter names
\* of f before the body runs; a keyword naming no parameter raises TypeError.
KeywordsBind(signature, keywords) == keywords \subseteq signature

UnexpectedKeyword == "got an unexpected keyword argument 'account'"

\* The registered do-not-call tools with a one-request function behind them,
\* and the keywords each passes; update_dnc_list_tool (server.py:2271) has no
\* decorator of its own and is not registered.
DncTools ==
    [ createDncContact |-> "create_dnc_contact",
      updateDncContact |-> "update_dnc_contact",
      deleteDncContact |-> "delete_dnc_contact",
      createDncList |-> "create_dnc_list",
      deleteDncList |-> "delete_dnc_list" ]

\* return create_dnc_contact(account=account, dnc=dnc, ...) inside try/except,
\* where every resource function is declared as def f(params).
dnc_tool(tool, args, resp) ==
    LET fn == DncTools[tool]
        keywords == [k \in DncKeys[fn] \cup {"account"} |->
                        IF k = "category" THEN GetDefault(args, k, PyInt(3)) ELSE Get(args, k)]
    IN Caught(IF KeywordsBind({"params"}, DOMAIN keywords)
              THEN dnc_function(fn, keywords, resp)
              ELSE Local(Raised(UnexpectedKeyword)))

\* urls.py: the account is resolved first, a missing shortCode raises ValueError.
getShortenedUrl(params, resp) ==
    LET cfg == get_account_config(Get(params, "accountName"))
        short_code == Get(params, "shortCode")
    IN
    IF ~cfg.ok THEN Local(Raised(AccountNotFound))
    ELSE IF Falsy(short_code) THEN Local(Raised("'shortCode' is required."))
    ELSE api_call("GET", "v1/shortened_url/{}/", short_code, "query", NoBody, cfg.account, resp)

get_shortened_url_tool(args, resp) ==
    Caught(getShortenedUrl(
        Strip([accountName |-> Named(Get(args, "account")),
               shortCode |-> IF Falsy(Get(args, "shortCode")) THEN Absent ELSE args["shortCode"]]),
        resp))

\* callhub.campaigns.export_power_campaign: a resource function of the common
\* pattern, which asks the resolver for the account it is given.
export_power_campaign(params, resp) ==
    LET campaign_id == Get(params, "campaignId") IN
    IF Falsy(campaign_id) THEN Local(ErrorEnvelope("'campaignId' is required."))
    ELSE ClientCall(Get(params, "accountName"), "v1/power_campaign/{}/export/", campaign_id,
                    "POST", None, None, None, resp)

MatMulTypeError == "unsupported operand type(s) for @: 'dict' and 'function'"

\* The except clause of the tool reads
\*   return {"isError": True, ...} @ server.tool(name="updateDncList", ...)
\* so handling an exception applies @ to a dictionary and raises TypeError.
export_power_campaign_tool(args, resp) ==
    LET r == export_power_campaign(
                Strip([campaignId |-> Get(args, "campaign_id"),
                       accountName |-> Named(Get(args, "account"))]), resp)
    IN IF r.ret.raised THEN Local(Raised(MatMulTypeError)) ELSE r

\* if params.get(k) is not None: query[name] = params[k]
GivenQuery(params) ==
    Strip([k \in {"page", "page_size"} |->
             LET v == Get(params, IF k = "page" THEN "page" ELSE "pageSize")
             IN IF v = None THEN Absent ELSE v])

list_sms_campaigns(params, resp) ==
    Caught(ClientCall(Get(params, "account"), "ENDPOINTS.SMS_CAMPAIGNS", None, "GET",
                      None, GivenQuery(params), None, resp))

list_sms_campaigns_tool(args, resp) ==
    Caught(list_sms_campaigns(
        Strip([accountName |-> Named(Get(args, "account")),
               page |-> IF Get(args, "page") = None THEN Absent ELSE args["page"],
               pageSize |-> IF Get(args, "pageSize") = None THEN Absent ELSE args["pageSize"]]),
        resp))

duplicate_vb_campaign(params, resp) ==
    LET campaign_id == Get(params, "campaignId") IN
    IF Falsy(campaign_id) THEN Local(ErrorEnvelope("'campaignId' is required."))
    ELSE Caught(ClientCall(Get(params, "account"), "ENDPOINTS.VB_CAMPAIGN{}/duplicate/",
                           campaign_id, "POST", None, None, None, resp))

duplicate_vb_campaign_tool(args, resp) ==
    Caught(duplicate_vb_campaign(
        Strip([campaignId |-> Get(args, "campaign_id"),
               accountName |-> Named(Get(args, "account"))]), resp))

OptionalP2pFields ==
    {"script", "schedule", "agent_settings", "contact_options", "recommended_replies",
     "description"}

RECURSIVE JoinNames(_)
\* ', '.join(fields)
JoinNames(fields) ==
    IF fields = <<>> THEN ""
    ELSE IF Len(fields) = 1 THEN fields[1]
    ELSE fields[1] \o ", " \o JoinNames(Tail(fields))

\* f"Missing required fields: {', '.join(required_fields)}"
MissingMessage(fields) == "Missing required fields: " \o JoinNames(fields)

\* A campaign whose script never stands in for the template.
TemplateId_Given(script, given_id) == given_id

\* if script and not template_id: a script object with an id, or an integer
\* script, stands in for the missing template_id.
TemplateId(script, given_id) ==
    IF ~Falsy(script) /\ Falsy(given_id)
    THEN IF script.t = "dict" THEN (IF "id" \in DOMAIN script.d THEN script.d["id"] ELSE given_id)
         ELSE IF IsInt(script) THEN script ELSE given_id
    ELSE given_id

\* p2p_campaigns.py: the campaign is read from params["campaign_data"] (or
\* from params itself), the account from params.get("account").
create_p2p_campaign(params, resp) ==
    LET campaign_data == IF "campaign_data" \in DOMAIN params
                         THEN params["campaign_data"].d ELSE params
        script == Get(campaign_data, "script")
        template_id == TemplateId(script, Get(campaign_data, "template_id"))
        required_fields == SelectSeq(<<"name", "callerid_options", "phonebooks">>,
                                          LAMBDA f : Falsy(Get(campaign_data, f)))
        payload == [k \in {"name", "template_id", "phonebooks", "callerid_options"}
                          \cup {f \in OptionalP2pFields : Get(campaign_data, f) # None} |->
                       IF k = "template_id" THEN template_id ELSE Get(campaign_data, k)]
        cfg == get_account_config(Get(params, "account"))
    IN
    IF required_fields # <<>>
    THEN Local(ErrorEnvelope(MissingMessage(required_fields)))
    ELSE IF Falsy(template_id) /\ Falsy(script)
    THEN Local(ErrorEnvelope("Either 'template_id' or 'script' must be provided."))
    ELSE IF ~cfg.ok THEN Local(ErrorEnvelope(AccountNotFound))
    ELSE api_call("POST", "v1/p2p_campaigns/", None, "json", payload, cfg.account, resp)

\* The createP2PCampaign tool (the function is named dsafdsf in server.py).
dsafdsf(args, resp) ==
    IF Falsy(Get(args, "campaign_data"))
    THEN Local(ErrorEnvelope("'campaign_data' is required."))
    ELSE Caught(create_p2p_campaign(
            Strip([campaign_data |-> args["campaign_data"],
                   accountName |-> Named(Get(args, "account"))]), resp))

TemplateKeys == {"label", "live_message", "transfers", "dnc_option"}

\* vb_campaigns.py: the four keys are read from params itself.
create_vb_campaign_template(params, resp) ==
    Caught(ClientCall(Get(params, "accountName"), "ENDPOINTS.VB_TEMPLATES", None, "POST",
                      [k \in TemplateKeys |-> Get(params, k)], None, None, resp))

create_vb_campaign_template_tool(args, resp) ==
    IF Falsy(Get(args, "template_data"))
    THEN Local(ErrorEnvelope("'template_data' is required."))
    ELSE Caught(create_vb_campaign_template(
            Strip([template_data |-> args["template_data"],
                   accountName |-> Named(Get(args, "account"))]), resp))

\* The registered name of each tool modelled here.
ToolNames ==
    DOMAIN DncTools \cup
    {"getShortenedUrl", "exportPowerCampaign", "listSmsCampaigns", "duplicateVbCampaign",
     "createP2PCampaign", "createVbCampaignTemplate"}

tool(name, args, resp) ==
    CASE name \in DOMAIN DncTools -> dnc_tool(name, args, resp)
      [] name = "getShortenedUrl" -> get_shortened_url_tool(args, resp)
      [] name = "exportPowerCampaign" -> export_power_campaign_tool(args, resp)
      [] name = "listSmsCampaigns" -> list_sms_campaigns_tool(args, resp)
      [] name = "duplicateVbCampaign" -> duplicate_vb_campaign_tool(args, resp)
      [] name = "createP2PCampaign" -> dsafdsf(args, resp)
      [] name = "createVbCampaignTemplate" -> create_vb_campaign_template_tool(args, resp)

CampaignData ==
    { PyDict(d) : d \in Dicts([name |-> {Absent, Obj}, callerid_options |-> {Obj},
                               phonebooks |-> {Absent, Obj},
                               template_id |-> {Absent, PyInt(7)},
                               script |-> {Absent, PyInt(9)}]) }

\* The campaigns create_p2p_campaign is called with: each required field
\* given or not, a template id or none, and for the script nothing, an
\* integer, an object with an id, or an object without one.
P2pCampaigns ==
    { Strip([k \in {"name", "callerid_options", "phonebooks", "template_id", "script"} |->
               IF k = "template_id" THEN t
               ELSE IF k = "script" THEN sc
               ELSE IF k \in present THEN Obj ELSE Absent]) :
        present \in SUBSET {"name", "callerid_options", "phonebooks"},
        t \in {Absent, PyInt(7)},
        sc \in {Absent, PyInt(9), PyDict([id |-> PyInt(5)]), PyDict([text |-> Obj])} }

TemplateData ==
    { PyDict(d) : d \in Dicts([label |-> {Obj}, live_message |-> {Absent, Obj},
                               transfers |-> {Absent, Obj}, dnc_option |-> {Obj}]) }

\* The keyword arguments a tool can be called with.
ToolArguments(name) ==
    CASE name \in DOMAIN DncTools -> DncParams(DncKeys[DncTools[name]])
      [] name = "getShortenedUrl" ->
            Dicts([account |-> AccountValues, shortCode |-> CampaignIds])
      [] name \in {"exportPowerCampaign", "duplicateVbCampaign"} ->
            Dicts([account |-> AccountValues, campaign_id |-> CampaignIds])
      [] name = "listSmsCampaigns" ->
            Dicts([account |-> AccountValues, page |-> {Absent, PyInt(1)},
                   pageSize |-> {Absent, PyInt(10)}])
      [] name = "createP2PCampaign" ->
            Dicts([account |-> AccountValues, campaign_data |-> {Absent} \cup CampaignData])
      [] name = "createVbCampaignTemplate" ->
            Dicts([account |-> AccountValues, template_data |-> {Absent} \cup TemplateData])

CallTool ==
    /\ Idle
    /\ \E name \in ToolNames :
       \E args \in ToolArguments(name), resp \in Responses :
        LET r == tool(name, args, resp) IN
        /\ call' = Invocation(name, args, resp)
        /\ requests' = r.reqs
        /\ outcome' = r.ret
    /\ UNCHANGED <<pageVars, repairVars, storeVars>>

NextTools ==
    \/ CallDncFunction
    \/ CallTool
    \/ Finish

SpecTools == Init /\ [][NextTools]_vars

\* The invocation failed and the failure was returned, not raised.
FailureReturned == ~Idle /\ ~outcome.raised /\ outcome.isError

\* C14: every failure returned by a resource function or a tool has the
\* uniform shape: isError is true and content is a non-empty list whose every
\* item has type "text" and a text message.
C14_UniformFailureShape ==
    FailureReturned
    =>  /\ outcome.content # <<>>
        /\ \A i \in DOMAIN outcome.content :
              /\ {"type", "text"} \subseteq DOMAIN outcome.content[i]
              /\ outcome.content[i].type = "text"

\* C15: no exception reaches the tool-calling boundary: whatever a registered
\* tool is called with, an exception raised behind it is turned into an error
\* envelope and the tool returns normally.
C15_NoExceptionAtToolBoundary ==
    call.fn \in ToolNames => ~outcome.raised

\* C17: the request a tool sends is made with the credentials of the account
\* named in its account argument, and with the default account's only when no
\* account is named.
C17_NamedAccountUsed ==
    (call.fn \in ToolNames /\ requests # <<>>)
    =>  LET cfg == get_account_config(Get(call.params, "account")) IN
        /\ cfg.ok
        /\ \A i \in DOMAIN requests : requests[i].account = cfg.account

\* The tool was given every required argument and an account that resolves.
ValidArguments ==
    /\ call.fn \in DOMAIN DncTools \cup {"createVbCampaignTemplate"}
    /\ get_account_config(Get(call.params, "account")).ok
    /\ IF call.fn = "createVbCampaignTemplate"
       THEN "template_data" \in DOMAIN call.params
       ELSE \A k \in DncRequired[DncTools[call.fn]] : ~Falsy(Get(call.params, k))

\* The one request carries the values the tool was given.
Marshalled ==
    /\ Len(requests) = 1
    /\ IF call.fn = "createVbCampaignTemplate"
       THEN \A k \in DOMAIN call.params["template_data"].d :
               requests[1].body[k] = call.params["template_data"].d[k]
       ELSE \A k \in DncRequired[DncTools[call.fn]] :
               IF k \in {"contactId", "listId"} THEN requests[1].id = call.params[k]
               ELSE requests[1].body[k] = call.params[k]

\* C18: a tool called with all of its required arguments present and valid
\* does not fail locally and reaches the dispatcher with those values, under
\* the keys its resource function reads.
C18_ArgumentsMarshalled ==
    ValidArguments => Marshalled

-----------------------------------------------------------------------------
(* McpApiClient.call on its own *)

Methods == {"GET", "POST", "PUT", "PATCH", "DELETE", "HEAD"}

\* The arguments of one call: each of body, query and form_data is left at
\* None or given as a dictionary of its own.
ClientArguments ==
    [ method : Methods,
      account : (AccountValues \ {Absent}) \cup {None},
      body : {None, [json |-> Obj]},
      query : {None, [page |-> PyInt(1)]},
      form_data : {None, [form |-> Obj]} ]

\* McpApiClient(account).call("v1/resource/", method, body=..., query=..., form_data=...)
CallClient ==
    /\ Idle
    /\ \E a \in ClientArguments, resp \in Responses :
        LET r == ClientCall(a.account, "v1/resource/", None, a.method, a.body, a.query,
                            a.form_data, resp) IN
        /\ call' = Invocation("McpApiClient.call", a, resp)
        /\ requests' = r.reqs
        /\ outcome' = r.ret
    /\ UNCHANGED <<pageVars, repairVars, storeVars>>

NextClient ==
    \/ CallClient
    \/ Finish

SpecClient == Init /\ [][NextClient]_vars

\* The client was built for an account that resolves, and called.
ClientCalled ==
    /\ call.fn = "McpApiClient.call"
    /\ get_account_config(call.params.account).ok

\* The one request of a call carries `body` as `kind`, under `content_type`.
OneRequest(kind, body, content_type) ==
    /\ Len(requests) = 1
    /\ requests[1].method = call.params.method
    /\ requests[1].kind = kind
    /\ requests[1].body = body
    /\ requests[1].content_type = content_type

-----------------------------------------------------------------------------
(* update_contact of callhub/contacts.py: the duplicate pre-lookup, one     *)
(* loop iteration a step, and then the POST.                                *)

\* The phone number a contact is identified by.
Phone == PyStr(<<"5","5","5">>)

\* The id the remote end answers the POST with: that of the first contact of
\* the first page, or one no contact had.
ReturnedIds == {<<1, 1>>, <<9, 9>>}

\* What update_contact is called with: the phone, an account, a field.
ContactParams ==
    Dicts([contact |-> {Absent, Phone}, accountName |-> {Absent, PyStr(GhostName)},
           first_name |-> {Absent, Obj}])

\* What the remote end holds and answers.
ContactRemotes ==
    [status : Responses, id : ReturnedIds, upstream : Upstreams]

\* account_name = params.pop("accountName", None)
Popped(params) == [k \in DOMAIN params \ {"accountName"} |-> params[k]]

\* find_duplicate_contacts: search_params of {"accountName": ..., "contact": phone}
SearchParams(account_name, phone) ==
    [accountName |-> account_name, filters |-> PyDict([contact |-> phone]),
     allPages |-> PyBool(TRUE)]

\* list_contacts: query = {"page": page}, page_size if given, then
\* query.update(filters).
FilteredQuery(params, page) ==
    IF Falsy(Get(params, "filters")) THEN LoopQuery(params, page)
    ELSE params["filters"].d @@ LoopQuery(params, page)

\* A client that updates in place.
PostContact_Patch(account, params, resp) ==
    McpApiClient_call(account, "/v1/contacts/", None, "PATCH", None, None, params, resp)

\* client.call("/v1/contacts/", "POST", form_data=params)
PostContact(account, params, resp) ==
    McpApiClient_call(account, "/v1/contacts/", None, "POST", None, None, params, resp)

\* The decoded JSON of a successful answer, here the contact with its id.
Answered(r, id) ==
    IF r.ret.isError \/ r.ret.raised THEN r
    ELSE [r EXCEPT !.ret = Success([id |-> id])]

\* update_contact up to the loop of the pre-lookup: no phone is refused, and
\* an account that does not resolve raises from the constructor in
\* list_contacts.
StartUpdateContact ==
    /\ Idle
    /\ pgPc = "idle"
    /\ \E p \in ContactParams, remote \in ContactRemotes :
        LET phone == Get(p, "contact")
            account_name == Get(p, "accountName")
            cfg == get_account_config(account_name)
        IN
        /\ call' = Invocation("update_contact", p, remote)
        /\ requests' = <<>>
        /\ pgResults' = <<>>
        /\ IF Falsy(phone)
           THEN /\ outcome' = ErrorEnvelope("'contact' (phone number) is required to identify the contact.")
                /\ pgPc' = "done"
                /\ pgPage' = None
           ELSE IF ~cfg.ok
           THEN /\ outcome' = Raised(AccountNotFound)
                /\ pgPc' = "done"
                /\ pgPage' = None
           ELSE /\ outcome' = NoResult
                /\ pgPc' = "lookup"
                /\ pgPage' = PyInt(1)
    /\ UNCHANGED <<pgCall, pgRequests, pgReturn, repairVars, storeVars>>

\* One iteration of the loop of list_contacts under find_duplicate_contacts;
\* an error envelope from it leaves no contact found.
LookupContacts ==
    /\ pgPc = "lookup"
    /\ LET p == call.params
           account_name == Get(p, "accountName")
           account == get_account_config(account_name).account
           search_params == SearchParams(account_name, p["contact"])
           query == FilteredQuery(search_params, pgPage)
           result == PageResponse(call.resp.upstream, query)
       IN
       /\ requests' = requests \o PageRequest(account, "/v1/contacts/", None, query)
       /\ IF result.isError
          THEN /\ pgResults' = <<>>
               /\ pgPc' = "post"
               /\ UNCHANGED pgPage
          ELSE /\ pgResults' = pgResults \o result.results
               /\ IF ~result.next
                  THEN pgPc' = "post" /\ UNCHANGED pgPage
                  ELSE pgPc' = "lookup" /\ pgPage' = PyInt(pgPage.n + 1)
    /\ UNCHANGED <<call, outcome, pgCall, pgRequests, pgReturn, repairVars, storeVars>>

\* The rest of update_contact: the POST, whose result is returned as it
\* came; the comparison with the pre-lookup only writes to stderr.
PostUpdatedContact ==
    /\ pgPc = "post"
    /\ LET p == call.params
           account == get_account_config(Get(p, "accountName")).account
           r == Answered(PostContact(account, Popped(p), call.resp.status), call.resp.id)
       IN
       /\ requests' = requests \o r.reqs
       /\ outcome' = r.ret
    /\ pgPc' = "done"
    /\ UNCHANGED <<call, pgPage, pgResults, pgCall, pgRequests, pgReturn, repairVars, storeVars>>

FinishUpdateContact ==
    /\ pgPc = "done"
    /\ call.fn = "update_contact"
    /\ call' = [fn |-> "none", params |-> NoBody, resp |-> "ok"]
    /\ requests' = <<>>
    /\ outcome' = NoResult
    /\ pgPc' = "idle"
    /\ pgPage' = None
    /\ pgResults' = <<>>
    /\ UNCHANGED <<pgCall, pgRequests, pgReturn, repairVars, storeVars>>

NextContact ==
    \/ StartUpdateContact
    \/ LookupContacts
    \/ PostUpdatedContact
    \/ FinishUpdateContact

SpecContact == Init /\ [][NextContact]_vars

\* update_contact has returned, having been given a phone and an account
\* that resolves.
ContactUpdated ==
    /\ call.fn = "update_contact"
    /\ pgPc = "done"
    /\ ~Falsy(Get(call.params, "contact"))
    /\ get_account_config(Get(call.params, "accountName")).ok

\* original_contact_id: the id of the first contact the pre-lookup found.
OriginalId == IF pgResults = <<>> THEN None ELSE pgResults[1]

\* C19: update_contact given a phone first runs the duplicate pre-lookup,
\* GETs on the contacts endpoint filtered by that phone, and then makes
\* exactly one POST to the contact-creation endpoint with the supplied
\* fields as form data, never a PATCH or PUT, whatever the pre-lookup found
\* and also when it failed.
C19_UpdateIsPost ==
    ContactUpdated =>
        LET n == Len(requests) IN
        /\ n >= 2
        /\ \A i \in 1 .. n - 1 :
              /\ requests[i].method = "GET"
              /\ requests[i].url = "/v1/contacts/"
              /\ requests[i].body["contact"] = call.params["contact"]
        /\ requests[n].method = "POST"
        /\ requests[n].url = "/v1/contacts/"
        /\ requests[n].kind = "form"
        /\ requests[n].body = Popped(call.params)

\* The POST went out after a pre-lookup that failed on its second page.
C19_Witness ==
    /\ ContactUpdated
    /\ Len(requests) = 3
    /\ Len(call.resp.upstream) >= 2
    /\ call.resp.upstream[2].kind = "error"
    /\ requests[3].method = "POST"

\* The POST was answered with an id other than that of the contact found.
DuplicateCreated ==
    /\ ContactUpdated
    /\ ~outcome.isError
    /\ OriginalId # None
    /\ outcome.data.id # OriginalId

\* C20: when the POST of update_contact succeeds but answers with an id
\* different from the one the pre-lookup found, the result is not an error
\* and carries a warning alongside the remote response.
C20_DuplicateWarning ==
    DuplicateCreated =>
        /\ ~outcome.isError
        /\ outcome # Success([id |-> call.resp.id])

-----------------------------------------------------------------------------
(* Resource functions that make several requests in one invocation:         *)
(* delete_team, delete_contact, add_tag_to_contact and                      *)
(* update_contact_custom_field.  The remote end is a script of answers, the *)
(* i-th request of the invocation being answered by the i-th of them.       *)

\* The largest number an answer carries: agents in a team, tags in a list.
MaxData == 2

\* One answer: how the request fared and, when it fared well, what came back.
Answers ==
    [status : {"ok"}, n : 0 .. MaxData] \cup [status : Responses \ {"ok"}, n : {0}]

\* The scripts of as many answers as an invocation can use up.
Scripts(length) == [1 .. length -> Answers]

\* A list passed as a value (tagNames).
PyList(items) == [t |-> "list", s |-> items, n |-> 0]

\* The decoded JSON of a successful answer in place of the opaque one.
Returning(r, data) ==
    IF r.ret.isError \/ r.ret.raised THEN r ELSE [r EXCEPT !.ret = Success(data)]

\* One call after another.
Then(first, second) == [reqs |-> first.reqs \o second.reqs, ret |-> second.ret]

\* teams.py: get_team_agents
get_team_agents(params, answer) ==
    LET team_id == Get(params, "teamId") IN
    IF Falsy(team_id) THEN Local(ErrorEnvelope("'teamId' is required"))
    ELSE Returning(ClientCall(Get(params, "accountName"), "/v1/teams/{}/agents/", team_id,
                              "GET", None, None, None, answer.status),
                   [results |-> [i \in 1 .. answer.n |-> Obj]])

\* delete_response["content"].append({"type": "text", "text": f"Warning: {agent_count} agents ..."})
UnassignedWarning(agent_count) ==
    [type |-> "text", text |-> "Warning: {agent_count} agents have been unassigned from this team",
     agent_count |-> agent_count]

\* A delete_team that warns of nothing.
WithWarning_Never(delete_response, agent_count) == delete_response

\* if not delete_response.get("isError") and agent_count > 0: append the warning
WithWarning(delete_response, agent_count) ==
    IF ~delete_response.isError /\ agent_count > 0
    THEN [delete_response EXCEPT !.content = @ \o <<UnassignedWarning(agent_count)>>]
    ELSE delete_response

\* teams.py: delete_team
delete_team(params, script) ==
    LET account_name == Get(params, "accountName")
        team_id == Get(params, "teamId")
        agents_response == get_team_agents([accountName |-> account_name, teamId |-> team_id],
                                           script[1])
        agent_count == IF agents_response.ret.isError THEN 0
                       ELSE Len(agents_response.ret.data.results)
        delete_response == ClientCall(account_name, "/v1/teams/{}/", team_id, "DELETE",
                                      None, None, None, script[2].status)
    IN
    IF Falsy(team_id) THEN Local(ErrorEnvelope("'teamId' is required"))
    ELSE IF ~get_account_config(account_name).ok THEN Local(Raised(AccountNotFound))
    ELSE [reqs |-> agents_response.reqs \o delete_response.reqs,
          ret |-> WithWarning(delete_response.ret, agent_count)]

\* server.py: delete_team_tool
delete_team_tool(args, script) ==
    Caught(delete_team(
        Strip([accountName |-> Named(Get(args, "account")),
               teamId |-> IF Falsy(Get(args, "teamId")) THEN Absent ELSE args["teamId"]]),
        script))

\* contacts.py: delete_contact; a successful answer is reshaped.
delete_contact(params, script) ==
    LET cid == Get(params, "contactId")
        result == ClientCall(Get(params, "accountName"), "/v1/contacts/{}/", cid, "DELETE",
                             None, None, None, script[1].status)
    IN
    IF Falsy(cid) THEN Local(ErrorEnvelope("'contactId' is required."))
    ELSE IF result.ret.isError \/ result.ret.raised THEN result
    ELSE [result EXCEPT !.ret = Success([deleted |-> TRUE, contactId |-> cid])]

\* The tags the remote end knows, by name, and the id of each.
TagNames == <<"a", "b">>

TagId(name) == IF name = "a" THEN 1 ELSE 2

\* The tag list an answer carries: none, the first tag, or the first two.
TagList(n) ==
    [i \in 1 .. (IF n < Len(TagNames) THEN n ELSE Len(TagNames)) |->
        [name |-> TagNames[i], id |-> TagId(TagNames[i])]]

\* The id the remote end gives a tag it creates.
CreatedId(answer) == 10 + answer.n

Range(seq) == {seq[i] : i \in DOMAIN seq}

\* tags.py: list_tags
list_tags(params, answer) ==
    Returning(ClientCall(Get(params, "accountName"), "/v1/tags/", None, "GET", None,
                         SinglePageQuery(params), None, answer.status),
              [results |-> TagList(answer.n)])

\* tags.py: create_tag
create_tag(params, answer) ==
    IF "name" \notin DOMAIN params THEN Local(ErrorEnvelope("'name' field is required."))
    ELSE Returning(ClientCall(Get(params, "accountName"), "/v2/tags/", None, "POST",
                              [tag |-> params["name"]], None, None, answer.status),
                   [id |-> CreatedId(answer)])

\* A function that starts from no tag id.
ExistingTagIds_Forgotten(existing_tags) == {}

\* all_tag_ids = {str(tag["id"]) for tag in existing_tags}
ExistingTagIds(existing_tags) == {existing_tags[i].id : i \in DOMAIN existing_tags}

\* tags.py: add_tag_to_contact.  `order` is the order in which the loop
\* meets the names of the set all_tag_names.
add_tag_to_contact(params, script, order) ==
    LET account_name == Get(params, "accountName")
        contact_id == Get(params, "contactId")
        tag_names == Get(params, "tagNames")
        contact_result ==
            Returning(ClientCall(account_name, "/v1/contacts/{}/", contact_id, "GET",
                                 None, None, None, script[1].status),
                      [contact |-> PyStr(<<"5","5","5">>), tags |-> TagList(script[1].n)])
        existing_tags == contact_result.ret.data.tags
        existing_tag_names == {existing_tags[i].name : i \in DOMAIN existing_tags}
        all_tag_names == existing_tag_names \cup Range(tag_names.s)
        tags_result == list_tags([accountName |-> account_name, pageSize |-> PyInt(1000)],
                                 script[2])
        available_tags == {tags_result.ret.data.results[i].name :
                              i \in DOMAIN tags_result.ret.data.results}
        missing == SelectSeq(order, LAMBDA name : name \in all_tag_names \ available_tags)
        create_result(k) == create_tag([accountName |-> account_name, name |-> missing[k]],
                                       script[2 + k])
        failed == {k \in DOMAIN missing : create_result(k).ret.isError}
        created == IF failed = {} THEN Len(missing)
                   ELSE CHOOSE k \in failed : \A j \in failed : k <= j
        creations == [k \in 1 .. created |-> create_result(k).reqs[1]]
        all_tag_ids == ExistingTagIds(existing_tags)
                           \cup {TagId(name) : name \in all_tag_names \cap available_tags}
                           \cup {create_result(k).ret.data.id : k \in DOMAIN missing}
        result == ClientCall(account_name, "/v2/contacts/{}/taggings/", contact_id, "PATCH",
                             [tags |-> all_tag_ids], None, None,
                             script[3 + Len(missing)].status)
    IN
    IF Falsy(contact_id) THEN Local(ErrorEnvelope("'contactId' is required."))
    ELSE IF Falsy(tag_names) \/ tag_names.t # "list"
    THEN Local(ErrorEnvelope("'tagNames' must be a non-empty list."))
    ELSE IF ~get_account_config(account_name).ok THEN Local(Raised(AccountNotFound))
    ELSE IF contact_result.ret.isError THEN contact_result
    ELSE IF Range(tag_names.s) \subseteq existing_tag_names
    THEN [reqs |-> contact_result.reqs, ret |-> Success("All tags already exist on contact")]
    ELSE IF tags_result.ret.isError THEN Then(contact_result, tags_result)
    ELSE IF failed # {}
    THEN [reqs |-> contact_result.reqs \o tags_result.reqs \o creations,
          ret |-> ErrorEnvelope("Failed to create tag")]
    ELSE [reqs |-> contact_result.reqs \o tags_result.reqs \o creations \o result.reqs,
          ret |-> IF result.ret.isError THEN result.ret
                  ELSE Success("Tags successfully set for contact")]

\* The error envelope the dispatcher answers a failed request with.
DispatcherError(status) == api_call("GET", "", None, "none", NoBody, <<>>, status).ret

\* The custom fields an answer carries: none, field 7 without a name, or
\* field 7 and field 8 named "c".  Names are one letter long.
CustomFields(n) ==
    IF n = 0 THEN <<>>
    ELSE IF n = 1 THEN <<[id |-> PyStr(<<"7">>), name |-> None]>>
    ELSE <<[id |-> PyStr(<<"7">>), name |-> None],
           [id |-> PyStr(<<"8">>), name |-> PyStr(<<"c">>)]>>

\* A lookup that answers with the first field whatever id is asked for.
Matching_Any(fields, custom_field_id) == DOMAIN fields

\* if str(field.get("id")) == str(custom_field_id)
Matching(fields, custom_field_id) == {i \in DOMAIN fields : fields[i].id = custom_field_id}

\* custom_fields.py: get_custom_field_info from `result = list_custom_fields(...)`
\* on: the listing came back as a dictionary of results, `fields`.
FieldLookedUp(custom_field_id, result, fields, answer) ==
    IF Falsy(custom_field_id) THEN Local(ErrorEnvelope("'customFieldId' is required."))
    ELSE IF result.kind = "raised" THEN Local(Raised(AccountNotFound))
    ELSE IF result.kind = "error"
    THEN [reqs |-> result.reqs, ret |-> DispatcherError(answer.status)]
    ELSE IF Matching(fields, custom_field_id) = {}
    THEN [reqs |-> result.reqs, ret |-> ErrorEnvelope("Custom field with ID not found")]
    ELSE [reqs |-> result.reqs,
          ret |-> Success(fields[CHOOSE i \in Matching(fields, custom_field_id) :
                                    \A j \in Matching(fields, custom_field_id) : i <= j])]

\* custom_fields.py: get_custom_field_info
get_custom_field_info(params, answer) ==
    FieldLookedUp(Get(params, "customFieldId"),
                  list_custom_fields([accountName |-> Get(params, "accountName")],
                      [kind |-> IF answer.status = "ok" THEN "results" ELSE "error",
                       objects |-> <<>>]),
                  CustomFields(answer.n), answer)

\* custom_fields.py: update_contact_custom_field from the two lookups on.
FieldPut(params, script, contact_result, custom_field) ==
    LET account_name == Get(params, "accountName")
        contact_id == Get(params, "contactId")
        field_id == Get(params, "customFieldId")
        value == Get(params, "value")
        field_name == custom_field.ret.data.name
        update_data == (field_name.s[1] :> value)
                           @@ ("contact" :> contact_result.ret.data.contact)
        result == ClientCall(account_name, "ENDPOINTS.CONTACTS_V1{}/", contact_id, "PUT",
                             update_data, None, None, script[3].status)
    IN
    IF Falsy(contact_id) \/ Falsy(field_id)
    THEN Local(ErrorEnvelope("Both 'contactId' and 'customFieldId' are required."))
    ELSE IF "value" \notin DOMAIN params
    THEN Local(ErrorEnvelope("'value' parameter is required."))
    ELSE IF ~get_account_config(account_name).ok THEN Local(Raised(AccountNotFound))
    ELSE IF contact_result.ret.isError THEN contact_result
    ELSE IF custom_field.ret.isError THEN Then(contact_result, custom_field)
    ELSE IF Falsy(field_name)
    THEN [reqs |-> contact_result.reqs \o custom_field.reqs,
          ret |-> ErrorEnvelope("Custom field has no name")]
    ELSE [reqs |-> contact_result.reqs \o custom_field.reqs \o result.reqs,
          ret |-> IF result.ret.isError THEN result.ret
                  ELSE Success([success |-> TRUE, contactId |-> contact_id,
                                customFieldId |-> field_id, value |-> value])]

\* custom_fields.py: update_contact_custom_field
update_contact_custom_field(params, script) ==
    FieldPut(params, script,
             Returning(ClientCall(Get(params, "accountName"), "ENDPOINTS.CONTACTS_V1{}/",
                                  Get(params, "contactId"), "GET", None, None, None,
                                  script[1].status),
                       [contact |-> PyStr(<<"5","5","5">>)]),
             get_custom_field_info([accountName |-> Get(params, "accountName"),
                                    customFieldId |-> Get(params, "customFieldId")],
                                   script[2]))

\* What each function is called with.
FlowParams ==
    [ delete_team |-> Dicts([accountName |-> {Absent, PyStr(GhostName)},
                             teamId |-> CampaignIds]),
      deleteTeam |-> Dicts([account |-> {Absent, PyStr(GhostName)}, teamId |-> CampaignIds]),
      delete_contact |-> Dicts([accountName |-> {Absent, PyStr(GhostName)},
                                contactId |-> CampaignIds]),
      add_tag_to_contact |->
          Dicts([accountName |-> {Absent, PyStr(GhostName)},
                 contactId |-> {Absent, PyStr(<<"4","2">>)},
                 tagNames |-> {Absent, PyList(<<>>), PyStr(<<"a">>), PyList(<<"a">>),
                               PyList(<<"b">>), PyList(<<"b", "a">>)}]),
      update_contact_custom_field |->
          Dicts([accountName |-> {Absent, PyStr(GhostName)},
                 contactId |-> {Absent, PyStr(<<"4","2">>)},
                 customFieldId |-> {Absent, PyStr(<<"7">>), PyStr(<<"8">>), PyStr(<<"9">>)},
                 value |-> {Absent, None, Obj}]) ]

\* The requests an invocation makes at most.
FlowRequests ==
    [ delete_team |-> 2, deleteTeam |-> 2, delete_contact |-> 1,
      add_tag_to_contact |-> 3 + Len(TagNames), update_contact_custom_field |-> 3 ]

\* The orders in which a loop over a set of tag names can meet them.
Orders(fn) ==
    IF fn = "add_tag_to_contact" THEN {<<"a", "b">>, <<"b", "a">>} ELSE {TagNames}

flow(fn, params, script, order) ==
    CASE fn = "delete_team" -> delete_team(params, script)
      [] fn = "deleteTeam" -> delete_team_tool(params, script)
      [] fn = "delete_contact" -> delete_contact(params, script)
      [] fn = "add_tag_to_contact" -> add_tag_to_contact(params, script, order)
      [] fn = "update_contact_custom_field" -> update_contact_custom_field(params, script)

CallFlow ==
    /\ Idle
    /\ \E fn \in DOMAIN FlowParams :
       \E p \in FlowParams[fn], script \in Scripts(FlowRequests[fn]), order \in Orders(fn) :
        LET r == flow(fn, p, script, order) IN
        /\ call' = Invocation(fn, p, [script |-> script, order |-> order])
        /\ requests' = r.reqs
        /\ outcome' = r.ret
    /\ UNCHANGED <<pageVars, repairVars, storeVars>>

NextFlows ==
    \/ CallFlow
    \/ Finish

SpecFlows == Init /\ [][NextFlows]_vars

\* The invocation made its i-th request and the remote end failed it.
FailedAt(i) ==
    /\ i \in DOMAIN requests
    /\ call.resp.script[i].status # "ok"

\* C21: whenever a dispatcher call made during the invocation of a resource
\* function returns an error envelope, the function returns that same
\* envelope unchanged: it neither replaces its message nor goes on to a
\* successful result.
C21_DispatcherErrorPropagated ==
    (call.fn \in DOMAIN FlowParams \ {"deleteTeam"})
    => \A i \in 1 .. Len(requests) :
          FailedAt(i) => outcome = DispatcherError(call.resp.script[i].status)

\* delete_team, or the deleteTeam tool, was given a team and an account that
\* resolves.
TeamDeleted ==
    /\ call.fn \in {"delete_team", "deleteTeam"}
    /\ ~Falsy(Get(call.params, "teamId"))
    /\ get_account_config(Get(call.params, IF call.fn = "deleteTeam" THEN "account"
                                            ELSE "accountName")).ok

\* The number of agents the query found, none when it failed.
AgentsFound == IF call.resp.script[1].status = "ok" THEN call.resp.script[1].n ELSE 0

\* C28: delete_team first queries the team's agents and then issues exactly
\* one DELETE for the team, whether the query failed or however many agents
\* it found; a successful delete of a team that had k > 0 agents returns the
\* delete response with one added warning text item stating k, and a failed
\* delete is returned unchanged with no warning.
C28_DeleteTeamWarns ==
    TeamDeleted =>
        /\ Len(requests) = 2
        /\ requests[1].method = "GET" /\ requests[1].url = "/v1/teams/{}/agents/"
        /\ requests[2].method = "DELETE" /\ requests[2].url = "/v1/teams/{}/"
        /\ requests[2].id = call.params["teamId"]
        /\ IF call.resp.script[2].status # "ok"
           THEN outcome = DispatcherError(call.resp.script[2].status)
           ELSE /\ ~outcome.isError
                /\ outcome.data = "response"
                /\ outcome.content =
                      IF AgentsFound > 0 THEN <<UnassignedWarning(AgentsFound)>> ELSE <<>>

\* A team of two agents was deleted and the answer carries the warning.
C28_Witness ==
    /\ TeamDeleted
    /\ call.resp.script[1] = [status |-> "ok", n |-> 2]
    /\ call.resp.script[2].status = "ok"
    /\ Len(outcome.content) = 1
    /\ outcome.content[1].agent_count = 2

\* add_tag_to_contact was given a contact, a non-empty list of names and an
\* account that resolves.
TagsAdded ==
    /\ call.fn = "add_tag_to_contact"
    /\ ~Falsy(Get(call.params, "contactId"))
    /\ Get(call.params, "tagNames").t = "list"
    /\ ~Falsy(call.params["tagNames"])
    /\ get_account_config(Get(call.params, "accountName")).ok

\* The tags on the contact when it was read.
TagsOnContact == TagList(call.resp.script[1].n)

Patches == {i \in DOMAIN requests : requests[i].method = "PATCH"}

Creations == {i \in DOMAIN requests : requests[i].method = "POST"}

\* The ids sent hold an id for the tag `name`: its own, or that of a tag
\* created under that name in this invocation.
HasIdFor(name, ids) ==
    \/ TagId(name) \in ids
    \/ \E k \in Creations :
          /\ requests[k].body["tag"] = name
          /\ CreatedId(call.resp.script[k]) \in ids

\* C26: add_tag_to_contact never removes a tag from a contact: the tag ids of
\* its PATCH hold every id already on the contact and an id for each
\* requested name; when every requested name is already on the contact it
\* creates no tag, sends no PATCH and returns success; and when creating a
\* missing tag fails it returns an error without sending the PATCH.
C26_TagsOnlyAdded ==
    TagsAdded =>
        /\ \A i \in Patches :
              /\ {TagsOnContact[j].id : j \in DOMAIN TagsOnContact}
                    \subseteq requests[i].body["tags"]
              /\ \A name \in Range(call.params["tagNames"].s) :
                    HasIdFor(name, requests[i].body["tags"])
        /\ ( /\ call.resp.script[1].status = "ok"
             /\ Range(call.params["tagNames"].s)
                    \subseteq {TagsOnContact[j].name : j \in DOMAIN TagsOnContact} )
           => (Len(requests) = 1 /\ requests[1].method = "GET" /\ ~outcome.isError)
        /\ (\E k \in Creations : FailedAt(k)) => (outcome.isError /\ Patches = {})

\* A contact that had tag "a" was given tag "b", which had to be created,
\* and the PATCH carries both ids.
C26_Witness ==
    /\ TagsAdded
    /\ call.params["tagNames"] = PyList(<<"b">>)
    /\ call.resp.script[1] = [status |-> "ok", n |-> 1]
    /\ Creations # {}
    /\ Patches # {}
    /\ \A i \in Patches : {1, 10} \subseteq requests[i].body["tags"]

\* update_contact_custom_field was given a contact, a field, a value and an
\* account that resolves.
FieldUpdated ==
    /\ call.fn = "update_contact_custom_field"
    /\ ~Falsy(Get(call.params, "contactId"))
    /\ ~Falsy(Get(call.params, "customFieldId"))
    /\ "value" \in DOMAIN call.params
    /\ get_account_config(Get(call.params, "accountName")).ok

\* The fields of the listing that have the id asked for.
FieldsAsked ==
    LET fields == CustomFields(call.resp.script[2].n) IN
    {fields[i] : i \in {j \in DOMAIN fields : fields[j].id = call.params["customFieldId"]}}

Puts == {i \in DOMAIN requests : requests[i].method = "PUT"}

\* Both lookups succeeded and the field asked for is there under a name.
LookupsSucceeded ==
    /\ call.resp.script[1].status = "ok"
    /\ call.resp.script[2].status = "ok"
    /\ \E f \in FieldsAsked : ~Falsy(f.name)

\* C27: update_contact_custom_field sends its PUT on the contact only after
\* the contact GET and the custom-field lookup both succeeded and the field
\* has a name; if either lookup fails that error is returned, if the field
\* id is not found an error is returned, and in neither case is a PUT sent.
\* The PUT body holds only the contact's phone number and the one value.
C27_PutAfterLookups ==
    FieldUpdated =>
        IF LookupsSucceeded
        THEN /\ Len(requests) = 3
             /\ requests[1].method = "GET" /\ requests[2].method = "GET"
             /\ Puts = {3}
             /\ requests[3].id = call.params["contactId"]
             /\ requests[3].kind = "json"
             /\ requests[3].body = ("c" :> call.params["value"])
                                      @@ ("contact" :> PyStr(<<"5","5","5">>))
        ELSE /\ Puts = {}
             /\ outcome.isError
             /\ \A i \in {1, 2} : FailedAt(i) =>
                   outcome = DispatcherError(call.resp.script[i].status)

\* Field 8 of contact 42 was set after both lookups.
C27_Witness ==
    /\ FieldUpdated
    /\ LookupsSucceeded
    /\ Puts = {3}
    /\ ~outcome.isError

-----------------------------------------------------------------------------
(* The fetch-all loops: errors, order of the pages, termination *)

\* A listing is running, or has run, its fetch-all loop.
FetchAll ==
    /\ pgCall.fn \in ListingFunctions
    /\ AllPages(pgCall.params)

\* The decoded answer to the i-th request of the listing.
Answer(i) == PageResponse(pgCall.upstream, pgRequests[i].body)

\* C29: in fetch-all mode, if a page request returns an error envelope the
\* function returns that error envelope alone: what was accumulated from the
\* earlier pages is discarded and no further page is requested.
C29_ErrorPageAlone ==
    FetchAll =>
        \A i \in DOMAIN pgRequests :
            Answer(i).isError =>
                /\ i = Len(pgRequests)
                /\ pgPc = "done"
                /\ pgReturn = ResultReturned(Answer(i))
                /\ pgReturn.kind = "error"
                /\ pgReturn.results = <<>>

\* The third page failed after two pages of results had been accumulated.
C29_Witness ==
    /\ FetchAll
    /\ Len(pgRequests) = 3
    /\ Len(pgCall.upstream) = 3
    /\ pgCall.upstream[3].kind = "error"
    /\ RequestedPage(pgRequests[3].body) = 3
    /\ Len(pgResults) = 4
    /\ pgReturn.kind = "error"

\* After this answer the loop has nothing more to fetch: an error, an empty
\* page, or a page without a next cursor.
Terminal(answer) == answer.isError \/ answer.results = <<>> \/ ~answer.next

\* The loops run to their end: an iteration that can be taken is taken.
SpecPagesFair ==
    /\ Init
    /\ [][NextPages]_vars
    /\ WF_vars(LoopListContacts)
    /\ WF_vars(LoopGetPhonebookContacts)
    /\ WF_vars(LoopListDncContacts)
    /\ WF_vars(LoopListDncLists)

\* The pages are requested one after the other in increasing order.
Consecutive ==
    \A i \in 1 .. Len(pgRequests) - 1 :
        RequestedPage(pgRequests[i + 1].body) = RequestedPage(pgRequests[i].body) + 1

\* No page is requested after a terminal one.
NoPageAfterTerminal ==
    \A i \in DOMAIN pgRequests : Terminal(Answer(i)) => i = Len(pgRequests)

\* C24: every fetch-all loop eventually returns, the remote collection
\* eventually answering with a page that is an error, is empty, or has no
\* next cursor; it requests consecutive page numbers in increasing order and
\* requests no page after such a terminal page.
C24_FetchAllTerminates ==
    /\ (pgPc = "loop") ~> (pgPc = "done")
    /\ [](FetchAll => (Consecutive /\ NoPageAfterTerminal))

\* The parts of C24 that the loops do satisfy: they return, and they ask for
\* consecutive pages.
C24_LoopsReturn ==
    /\ (pgPc = "loop") ~> (pgPc = "done")
    /\ [](FetchAll => Consecutive)

-----------------------------------------------------------------------------
(* Retries: the bulk import, the client and the multi-request functions *)

NextRetry ==
    \/ CallCreateContactsBulk
    \/ CallClient
    \/ CallFlow
    \/ Finish

SpecRetry == Init /\ [][NextRetry]_vars

\* The bulk import got past its own checks: account, phone book, a source
\* that can be read, and a country when the choice is custom.
BulkAccepted ==
    LET p == call.params IN
    /\ call.fn = "create_contacts_bulk"
    /\ get_account_config(Get(p, "accountName")).ok
    /\ ~Falsy(Get(p, "phonebook_id"))
    /\ IF Falsy(Get(p, "csv_file_path")) THEN ~Falsy(Get(p, "csv_url"))
       ELSE call.resp.file = "readable"
    /\ (Get(p, "country_choice") = PyStr(<<"c","u","s","t","o","m">>))
          => ~Falsy(Get(p, "country_iso"))

\* The i-th request of the invocation came back as an error envelope.
ErrorAt(i) ==
    /\ i \in DOMAIN requests
    /\ IF call.fn \in DOMAIN FlowParams THEN call.resp.script[i].status # "ok"
       ELSE IF call.fn = "create_contacts_bulk" THEN call.resp.status \notin {"200", "204"}
       ELSE call.resp # "ok"

\* C23: nothing is retried: within one invocation no request that came back
\* as an error envelope (an HTTP 429 among them) is issued again, the client
\* makes at most one request per call, and the bulk contact import issues
\* exactly one POST per invocation, also when it is rate limited.
C23_NoRetry ==
    /\ \A i, j \in DOMAIN requests : (i < j /\ ErrorAt(i)) => requests[j] # requests[i]
    /\ (call.fn = "McpApiClient.call") => Len(requests) <= 1
    /\ (call.fn = "create_contacts_bulk") =>
          /\ Len(requests) <= 1
          /\ BulkAccepted => (Len(requests) = 1 /\ requests[1].method = "POST")

\* The PATCH of add_tag_to_contact failed after a tag had been created, and
\* the invocation ended there with the error.
C23_Witness ==
    /\ TagsAdded
    /\ Creations # {}
    /\ \E i \in Patches : ErrorAt(i) /\ i = Len(requests)
    /\ outcome.isError

\* The rate-limited bulk import made its one POST.
C23_RateLimitedOnce ==
    /\ BulkAccepted
    /\ call.resp.status = "429"
    /\ Len(requests) = 1

-----------------------------------------------------------------------------
(* Campaign creation: create_p2p_campaign and create_call_center_campaign *)

\* The longest script a call-center campaign is created with.
MaxScript == 2

\* a or b
Or(a, b) == IF Falsy(a) THEN b ELSE a

\* The type of a script element after `int(element_type)` on a string; the
\* strings given are digits or letters.  None stands for the ValueError.
ElementType(element) ==
    LET element_type == Get(element.d, "type") IN
    IF IsStr(element_type)
    THEN IF IsDigit(element_type.s) THEN PyInt(IntOf(element_type.s)) ELSE None
    ELSE element_type

IsType(element_type, n) == IsInt(element_type) /\ element_type.n = n

\* script_text, question: the text an element of this type must carry.
ScriptText(element) ==
    Or(Or(Get(element.d, "script_text"), Get(element.d, "content")), Get(element.d, "question"))

Question(element) == Or(Get(element.d, "question"), Get(element.d, "content"))

\* One of the `return {"isError": True, ...}` of the loop is taken for the
\* element.
ElementRejected(element) ==
    \/ element.t # "dict"
    \/ LET element_type == ElementType(element) IN
       \/ element_type = None
       \/ IsType(element_type, 12) /\ Falsy(ScriptText(element))
       \/ (IsType(element_type, 1) \/ IsType(element_type, 3)) /\ Falsy(Question(element))
       \/ /\ IsType(element_type, 1)
          /\ LET choices == GetDefault(element.d, "choices", PyList(<<>>)) IN
             choices.t # "list" \/ choices.s = <<>>

\* normalized_element
NormalizedElement(element) ==
    LET element_type == ElementType(element)
        questioned == IsType(element_type, 1) \/ IsType(element_type, 3)
        keys == {"type"}
                  \cup (IF IsType(element_type, 12) THEN {"script_text"} ELSE {})
                  \cup (IF questioned THEN {"question"} ELSE {})
                  \cup (IF IsType(element_type, 1) THEN {"choices"} ELSE {})
                  \cup (DOMAIN element.d
                          \ {"type", "script_text", "question", "content", "choices"})
    IN PyDict([k \in keys |->
                 IF k = "type" THEN element_type
                 ELSE IF k = "script_text" THEN ScriptText(element)
                 ELSE IF k = "question" THEN Question(element)
                 ELSE element.d[k]])

\* campaigns.py: create_call_center_campaign, called with a dictionary for
\* campaign_data.
create_call_center_campaign(params, resp) ==
    LET campaign_data == Get(params, "campaign_data")
        missing_fields == SelectSeq(<<"name", "phonebook_ids", "callerid", "script">>,
                                         LAMBDA f : f \notin DOMAIN campaign_data.d)
        script == campaign_data.d["script"]
        normalized_script == [i \in DOMAIN script.s |-> NormalizedElement(script.s[i])]
        cfg == get_account_config(Get(params, "accountName"))
    IN
    IF Falsy(campaign_data) THEN Local(ErrorEnvelope("'campaign_data' is required."))
    ELSE IF missing_fields # <<>> THEN Local(ErrorEnvelope(MissingMessage(missing_fields)))
    ELSE IF script.t # "list" \/ script.s = <<>>
    THEN Local(ErrorEnvelope("Script must be a non-empty array of script elements"))
    ELSE IF \E i \in DOMAIN script.s : ElementRejected(script.s[i])
    THEN Local(ErrorEnvelope("Script element rejected"))
    ELSE IF ~cfg.ok THEN Local(ErrorEnvelope(AccountNotFound))
    ELSE api_call("POST", "v1/power_campaign/create/", None, "json",
                  [campaign_data.d EXCEPT !["script"] = PyList(normalized_script)],
                  cfg.account, resp)

Text == PyStr(<<"h","i">>)

\* The script elements given: each type with and without the texts it may
\* need, a type that is neither a string nor an integer, and an element that
\* is no object.
ScriptElements ==
    {Obj}
    \cup { PyDict(Strip([type |-> t])) : t \in {Absent, PyStr(<<"x">>), Obj} }
    \cup { PyDict(Strip([f \in {"type", "script_text", "content", "question"} |->
                            IF f = "type" THEN t ELSE IF f = k THEN Text ELSE Absent])) :
              k \in {"none", "script_text", "content", "question"},
              t \in {PyInt(12), PyInt(3)} }
    \cup { PyDict(Strip([type |-> t, question |-> q, choices |-> c])) :
              t \in {PyInt(1), PyStr(<<"1">>)},
              q \in {Absent, Text},
              c \in {Absent, PyList(<<>>), PyList(<<"y">>)} }

ValidScript == PyList(<<PyDict([type |-> PyInt(12), script_text |-> Text])>>)

CallCenterCampaigns ==
    { PyDict(Strip([k \in {"name", "phonebook_ids", "callerid", "script"} |->
                      IF k = "script" THEN sc
                      ELSE IF k \in present THEN Obj ELSE Absent])) :
        present \in SUBSET {"name", "phonebook_ids", "callerid"},
        sc \in {Absent, Obj, PyList(<<>>), ValidScript} }
    \cup
    { PyDict([name |-> Obj, phonebook_ids |-> Obj, callerid |-> Obj, script |-> PyList(sc)]) :
        sc \in UNION {[1 .. n -> ScriptElements] : n \in 1 .. MaxScript} }

CallCreateP2pCampaign ==
    /\ Idle
    /\ \E c \in P2pCampaigns, a \in {Absent, PyStr(GhostName)}, nested \in BOOLEAN,
          resp \in Responses :
        LET p == IF nested THEN Strip([campaign_data |-> PyDict(c), account |-> a])
                 ELSE c @@ Strip([account |-> a])
            r == create_p2p_campaign(p, resp)
        IN
        /\ call' = Invocation("create_p2p_campaign", p, resp)
        /\ requests' = r.reqs
        /\ outcome' = r.ret
    /\ UNCHANGED <<pageVars, repairVars, storeVars>>

CallCreateCallCenterCampaign ==
    /\ Idle
    /\ \E c \in CallCenterCampaigns \cup {Absent}, a \in {Absent, PyStr(GhostName)},
          resp \in Responses :
        LET p == Strip([campaign_data |-> c, accountName |-> a])
            r == create_call_center_campaign(p, resp)
        IN
        /\ call' = Invocation("create_call_center_campaign", p, resp)
        /\ requests' = r.reqs
        /\ outcome' = r.ret
    /\ UNCHANGED <<pageVars, repairVars, storeVars>>

NextCampaigns ==
    \/ CallCreateP2pCampaign
    \/ CallCreateCallCenterCampaign
    \/ Finish

SpecCampaigns == Init /\ [][NextCampaigns]_vars

\* The campaign create_p2p_campaign was called with, nested or flat.
P2pData ==
    IF "campaign_data" \in DOMAIN call.params THEN call.params["campaign_data"].d
    ELSE call.params

\* create_p2p_campaign was called for an account that resolves.
P2pCreated ==
    /\ call.fn = "create_p2p_campaign"
    /\ get_account_config(Get(call.params, "account")).ok

\* The script can stand in for the template id: an object with an id, or an
\* integer.
ScriptId ==
    LET script == Get(P2pData, "script") IN
    IF script.t = "dict" /\ "id" \in DOMAIN script.d THEN script.d["id"]
    ELSE IF script.t = "int" /\ script.n # 0 THEN script
    ELSE None

\* C22: create_p2p_campaign takes a template_id or a script.  With a required
\* field (name, callerid_options, phonebooks) missing it returns one error
\* that names every missing field and dispatches nothing; with neither a
\* template_id nor a script it returns an error and dispatches nothing;
\* otherwise it dispatches exactly one POST, and when no template_id was given
\* and the script is an object with an id, or an integer, the template_id it
\* submits is that id.
C22_ScriptOrTemplate ==
    P2pCreated =>
        LET missing == SelectSeq(<<"name", "callerid_options", "phonebooks">>,
                                 LAMBDA f : Falsy(Get(P2pData, f)))
            given_id == Get(P2pData, "template_id")
        IN
        IF missing # <<>>
        THEN /\ requests = <<>>
             /\ outcome.isError
             /\ Len(outcome.content) = 1
             /\ outcome.content[1].text = "Missing required fields: " \o JoinNames(missing)
        ELSE IF Falsy(given_id) /\ Falsy(Get(P2pData, "script"))
        THEN requests = <<>> /\ outcome.isError
        ELSE /\ Len(requests) = 1
             /\ requests[1].method = "POST"
             /\ (Falsy(given_id) /\ ScriptId # None)
                    => requests[1].body["template_id"] = ScriptId
             /\ ~Falsy(given_id) => requests[1].body["template_id"] = given_id

\* A campaign with the script object of id 5 and no template_id went out with
\* template_id 5.
C22_Witness ==
    /\ P2pCreated
    /\ Get(P2pData, "script") = PyDict([id |-> PyInt(5)])
    /\ "template_id" \notin DOMAIN P2pData
    /\ Len(requests) = 1
    /\ requests[1].body["template_id"] = PyInt(5)

\* All three required fields were missing and the one error names them all.
C22_AllNamed ==
    /\ P2pCreated
    /\ requests = <<>>
    /\ outcome.isError
    /\ outcome.content[1].text
          = "Missing required fields: name, callerid_options, phonebooks"

\* create_call_center_campaign was called for an account that resolves.
CallCenterCreated ==
    /\ call.fn = "create_call_center_campaign"
    /\ get_account_config(Get(call.params, "accountName")).ok

\* A type that int() converts.
Convertible(type) == IsInt(type) \/ (IsStr(type) /\ IsDigit(type.s))

IntValue(type) == IF IsInt(type) THEN type.n ELSE IntOf(type.s)

Truthy(d, keys) == \E k \in keys : ~Falsy(Get(d, k))

\* An object with an integer-convertible type and the text its type needs.
ElementComplete(element) ==
    /\ element.t = "dict"
    /\ Convertible(Get(element.d, "type"))
    /\ LET n == IntValue(element.d["type"]) IN
       /\ n = 12 => Truthy(element.d, {"script_text", "content", "question"})
       /\ n \in {1, 3} => Truthy(element.d, {"question", "content"})
       /\ n = 1 => /\ Get(element.d, "choices").t = "list"
                   /\ ~Falsy(element.d["choices"])

\* campaign_data has the four fields and a script of complete elements.
CampaignComplete ==
    LET campaign_data == Get(call.params, "campaign_data") IN
    /\ campaign_data.t = "dict"
    /\ {"name", "phonebook_ids", "callerid", "script"} \subseteq DOMAIN campaign_data.d
    /\ campaign_data.d["script"].t = "list"
    /\ campaign_data.d["script"].s # <<>>
    /\ \A i \in DOMAIN campaign_data.d["script"].s :
          ElementComplete(campaign_data.d["script"].s[i])

\* The script that went out has the length and order of the one given, and
\* integer types.
ScriptKept ==
    LET given == call.params["campaign_data"].d["script"].s
        sent == requests[1].body["script"].s
    IN
    /\ Len(sent) = Len(given)
    /\ \A i \in DOMAIN sent :
          /\ IsInt(sent[i].d["type"])
          /\ sent[i].d["type"].n = IntValue(given[i].d["type"])

\* C25: create_call_center_campaign dispatches exactly one POST if and only
\* if campaign_data has name, phonebook_ids, callerid and a non-empty script
\* list whose every element is an object with an integer-convertible type and
\* the text its type requires; otherwise it returns an error envelope and
\* dispatches nothing.  The script dispatched has the length and the order of
\* the one given and every type in it is an integer.
C25_CallCenterScript ==
    CallCenterCreated =>
        IF CampaignComplete
        THEN /\ Len(requests) = 1
             /\ requests[1].method = "POST"
             /\ ScriptKept
        ELSE requests = <<>> /\ outcome.isError

\* What does hold: a campaign that is complete goes out in one POST with its
\* script kept.
C25_CompleteDispatched ==
    (CallCenterCreated /\ CampaignComplete) =>
        /\ Len(requests) = 1
        /\ requests[1].method = "POST"
        /\ ScriptKept

-----------------------------------------------------------------------------
(* Two mutations of the credential store at once.  Each of add_account,     *)
(* update_account and delete_account loads the whole dictionary, changes    *)
(* its own copy and saves the whole dictionary; nothing is locked, so the   *)
(* steps of two server processes on the same file can interleave.            *)

Procs == {1, 2}

\* The mutations process p can be asked for; its credentials tell whose
\* write an entry of the store is.
Mutations(p) ==
    [op : {"add_account", "update_account", "delete_account"},
     account_name : {PyStr(<<"a","b">>), PyStr(<<"c","d">>)},
     username : {PyStr(<<"u", IF p = 1 THEN "1" ELSE "2">>)},
     api_key : {PyStr(<<"k", IF p = 1 THEN "1" ELSE "2">>)},
     base_url : {PyStr(<<"b","1">>)}]

\* The mutation over the dictionary it loaded: what it saves, if it saves,
\* and what it returns.
Mutated(mu, creds, file) ==
    CASE mu.op = "add_account" ->
            add_account(creds, file, mu.account_name, mu.username, mu.api_key,
                        mu.base_url, "200", TRUE)
      [] mu.op = "update_account" ->
            update_account(creds, file, mu.account_name, mu.username, mu.api_key,
                           mu.base_url, TRUE)
      [] mu.op = "delete_account" ->
            delete_account(creds, file, mu.account_name, TRUE)

\* Both processes are called, each with its mutation.
BeginMutations ==
    /\ running = NoneRunning
    /\ \E m1 \in Mutations(1), m2 \in Mutations(2) :
          running' = [start |-> [creds |-> store, file |-> fileExists],
                      of |-> [p \in Procs |->
                                [pc |-> "called", mu |-> IF p = 1 THEN m1 ELSE m2,
                                 creds |-> NoBody, file |-> FALSE,
                                 result |-> OpResult(FALSE, "")]]]
    /\ UNCHANGED <<store, fileExists, lastOp, callVars, pageVars, repairVars>>

\* creds = load_all_credentials()
LoadCredentials ==
    /\ running # NoneRunning
    /\ \E p \in Procs :
        /\ running.of[p].pc = "called"
        /\ running' = [running EXCEPT !.of[p].pc = "loaded",
                                      !.of[p].creds = store,
                                      !.of[p].file = fileExists]
    /\ UNCHANGED <<store, fileExists, lastOp, callVars, pageVars, repairVars>>

\* The check and the change on the copy, then save_credentials(creds) and
\* the return; a mutation that fails its check returns without saving.
SaveCredentials ==
    /\ running # NoneRunning
    /\ \E p \in Procs :
        /\ running.of[p].pc = "loaded"
        /\ LET left == Mutated(running.of[p].mu, running.of[p].creds, running.of[p].file) IN
           /\ running' = [running EXCEPT !.of[p].pc = "done",
                                         !.of[p].result = left.result]
           /\ IF left.result.success
              THEN store' = left.creds /\ fileExists' = left.file
              ELSE UNCHANGED <<store, fileExists>>
    /\ UNCHANGED <<lastOp, callVars, pageVars, repairVars>>

\* Both have returned.
EndMutations ==
    /\ running # NoneRunning
    /\ \A p \in Procs : running.of[p].pc = "done"
    /\ running' = NoneRunning
    /\ UNCHANGED <<store, fileExists, lastOp, callVars, pageVars, repairVars>>

NextRace ==
    \/ BeginMutations
    \/ LoadCredentials
    \/ SaveCredentials
    \/ EndMutations

SpecRace == Init /\ [][NextRace]_vars

BothReturned ==
    /\ running # NoneRunning
    /\ \A p \in Procs : running.of[p].pc = "done"

\* What is left when `first` runs to its end and `second` after it.
OneAfterTheOther(first, second) ==
    LET a == Mutated(first, running.start.creds, running.start.file)
        b == Mutated(second, a.creds, a.file)
    IN [creds |-> b.creds, file |-> b.file]

\* C30: when two mutations of the credential store on different account
\* names interleave their load, change and save, the store at the end
\* reflects both, as if one had run after the other: no mutation is lost.
\* And two interleaved add_account for the same name never both report
\* success.
C30_NoLostMutation ==
    BothReturned =>
        LET m1 == running.of[1].mu
            m2 == running.of[2].mu
        IN
        /\ (StoreKey(m1.account_name) # StoreKey(m2.account_name))
              => [creds |-> store, file |-> fileExists]
                    \in {OneAfterTheOther(m1, m2), OneAfterTheOther(m2, m1)}
        /\ ( /\ m1.op = "add_account" /\ m2.op = "add_account"
             /\ StoreKey(m1.account_name) = StoreKey(m2.account_name) )
              => ~(running.of[1].result.success /\ running.of[2].result.success)

\* What does hold: the store at the end is what the mutation that saved
\* last made of the dictionary it had loaded.
C30_LastSaveWins ==
    BothReturned =>
        \/ \E p \in Procs :
              /\ running.of[p].result.success
              /\ store = Mutated(running.of[p].mu, running.of[p].creds,
                                 running.of[p].file).creds
        \/ /\ \A p \in Procs : ~running.of[p].result.success
           /\ store = running.start.creds
====
